---- MODULE Spec2Model ----
(***************************************************************************)
(* Capture orchestration engine of CanonBracketTool:                       *)
(*   src/camera/capture_controller.py  (CaptureController)                 *)
(*   src/camera/camera_interface.py    (the device gateway it drives)      *)
(* One background worker thread per capture executes the plan against the  *)
(* camera; stop_capture runs on a request thread and shares the capture    *)
(* record with the worker without any lock.                                *)
(***************************************************************************)
EXTENDS Integers, Sequences, FiniteSets, TLC

\* ------------------------------------------------------------------ bounds
MaxPlanSize == 5      \* brackets plus exposures planned by one plan
MaxSteps    == 3      \* focus positions of one stack
MaxFailures == 1      \* device operations that fail during one run

\* ------------------------------------------------------------- input sets
SessionIds == {"id1", "id2"}          \* values uuid.uuid4() hands out
Modes      == {"standard", "fast"}
PreImages  == {1}                     \* images already on the card

\* step_size, speed, direction of a focus stack
FocusMoves ==
    {<<3, 2, "near">>, <<1, 2, "near">>, <<1, 3, "far">>, <<0, 1, "near">>}

NoFocusStack ==
    [enabled |-> FALSE, steps |-> 1, step_size |-> 3, speed |-> 2,
     direction |-> "near"]

FocusStacks ==
    {NoFocusStack} \cup
    {[enabled |-> TRUE, steps |-> n, step_size |-> m[1], speed |-> m[2],
      direction |-> m[3]] : n \in 1..MaxSteps, m \in FocusMoves}

RECURSIVE SumFrames(_, _)
SumFrames(brackets, perFrame) ==
    IF brackets = <<>> THEN 0
    ELSE Head(brackets).frames * perFrame + SumFrames(Tail(brackets), perFrame)

CalculateTotalFramesWithoutReset(capture_data) ==
    IF capture_data.focus_stack.enabled
    THEN SumFrames(capture_data.brackets, capture_data.focus_stack.steps)
    ELSE SumFrames(capture_data.brackets, 1)

\* _calculate_total_frames
CalculateTotalFrames(capture_data) ==
    IF capture_data.focus_stack.enabled
    THEN SumFrames(capture_data.brackets, capture_data.focus_stack.steps + 1)
    ELSE SumFrames(capture_data.brackets, 1)

\* every bracket list a plan of at most MaxPlanSize can carry
BracketLists ==
    UNION {[1..n -> [frames : 0..(MaxPlanSize - n)]] : n \in 0..MaxPlanSize}

PlanSize(capture_data) ==
    Len(capture_data.brackets) + CalculateTotalFrames(capture_data)

Plans ==
    {p \in [capture_mode : Modes, brackets : BracketLists,
            focus_stack : FocusStacks] : PlanSize(p) <= MaxPlanSize}

\* the plans submitted when captures run side by side: two brackets of one
\* exposure in standard mode, one frame of a one-position focus stack in
\* fast mode
ApiPlans ==
    {[capture_mode |-> "standard",
      brackets |-> <<[frames |-> 1], [frames |-> 1]>>,
      focus_stack |-> NoFocusStack],
     [capture_mode |-> "fast", brackets |-> <<[frames |-> 1]>>,
      focus_stack |-> [enabled |-> TRUE, steps |-> 1, step_size |-> 3,
                       speed |-> 2, direction |-> "near"]]}

\* ------------------------------------------------------------------ state
VARIABLES
    active_captures,   \* self.active_captures: capture id -> capture_info
    wk,                \* per worker thread: position and locals of
                       \* _execute_capture_sequence
    cardImages,        \* images on the camera's card
    cmds,              \* per capture: device commands issued so far, by kind
    saved,             \* per capture: the capture_info.json records written
    stopPc,            \* request thread inside stop_capture: "idle" | "set"
    stopId,            \* the capture id of the stop_capture call in progress
    stopRet,           \* value returned by the last finished stop_capture
    stopAt,            \* per capture: where its worker was when a
                       \* stop_capture returned True: "none" | "frame" (a
                       \* frame of a bracket in progress) | "between"
    failures,          \* device operations that have failed so far
    io,                \* per capture: take_picture calls that had
                       \* save_to_camera=True, socketio.emit calls that raised
    capture_threads,   \* self.capture_threads: capture id -> threads started
    startRet,          \* value returned by the last start_capture
    getRet,            \* the last get_capture_status call: <<argument,
                       \* value returned>>
    calc               \* the last ExposureCalculator call: operation,
                       \* arguments and value returned

vars == <<active_captures, wk, cardImages, cmds, saved, stopPc, stopId,
          stopRet, stopAt, failures, io, capture_threads, startRet, getRet,
          calc>>

\* what the request threads of start_capture, get_capture_status and the
\* exposure calculator hold
api == <<capture_threads, startRet, getRet, calc>>

Terminal == {"completed", "error", "stopped"}

Registered == DOMAIN active_captures

\* uuid.uuid4(): an id no capture has yet
NewId(reg) == IF "id1" \notin DOMAIN reg THEN "id1" ELSE "id2"

\* max_images: the max_images of the last bulk_download; save: calls of
\* _save_capture_info
NoCmds == [session |-> 0, count |-> 0, arm |-> 0, apply |-> 0, shot |-> 0,
           focus |-> 0, download |-> 0, max_images |-> 0, save |-> 0]

NoIo == [to_camera |-> 0, emit_failed |-> 0]

Init ==
    /\ active_captures = <<>>
    /\ wk = <<>>
    /\ cardImages \in PreImages
    /\ cmds = <<>>
    /\ saved = <<>>
    /\ stopPc = "idle"
    /\ stopId = "id1"
    /\ stopRet = "none"
    /\ stopAt = <<>>
    /\ failures = 0
    /\ io = <<>>
    /\ capture_threads = <<>>
    /\ startRet = "none"
    /\ getRet = <<>>
    /\ calc = [op |-> "none"]

\* ----------------------------------------------------------- start_capture
NewCaptureInfoAtFirstBracket(capture_data) ==
    [status |-> "initializing",
     data |-> capture_data,
     progress |-> [current_bracket |-> 1,
                   total_brackets |-> Len(capture_data.brackets),
                   current_frame |-> 0,
                   total_frames |-> CalculateTotalFrames(capture_data),
                   completed_frames |-> 0,
                   failed_frames |-> 0],
     results |-> <<>>,
     errors |-> <<>>,
     end_time |-> "none",
     images_before_capture |-> -1]

\* the capture_info start_capture builds; end_time and
\* images_before_capture are keys the worker adds later
NewCaptureInfo(capture_data) ==
    [status |-> "initializing",
     data |-> capture_data,
     progress |-> [current_bracket |-> 0,
                   total_brackets |-> Len(capture_data.brackets),
                   current_frame |-> 0,
                   total_frames |-> CalculateTotalFrames(capture_data),
                   completed_frames |-> 0,
                   failed_frames |-> 0],
     results |-> <<>>,
     errors |-> <<>>,
     end_time |-> "none",
     images_before_capture |-> -1]

StartCapture(capture_data) ==
    LET capture_id == NewId(active_captures)
        capture_info == NewCaptureInfo(capture_data)
    IN  /\ active_captures' = (capture_id :> capture_info) @@ active_captures
        /\ wk' = (capture_id :> [pc |-> "begin", bracket_idx |-> 0,
                                 frame_idx |-> 0, focus_idx |-> 0,
                                 total_movement |-> 0,
                                 focus_log |-> <<>>,
                                 frame_log |-> <<>>,
                                 images_after |-> 0,
                                 new_images |-> 0]) @@ wk
        /\ cmds' = (capture_id :> NoCmds) @@ cmds
        /\ io' = (capture_id :> NoIo) @@ io
        /\ saved' = (capture_id :> <<>>) @@ saved
        /\ stopAt' = (capture_id :> "none") @@ stopAt
        /\ capture_threads' = (capture_id :> 1) @@ capture_threads
        /\ startRet' = capture_id
        /\ UNCHANGED <<cardImages, stopPc, stopId, stopRet, failures, getRet,
                       calc>>


\* ------------------------------------------- _execute_capture_sequence
FastMode(id) == active_captures[id].data.capture_mode = "fast"

Brackets(id) == active_captures[id].data.brackets

FocusStack(id) == active_captures[id].data.focus_stack

RECURSIVE SumEmitFailed(_)
SumEmitFailed(ids) ==
    IF ids = {} THEN 0
    ELSE LET id == CHOOSE x \in ids : TRUE
         IN io[id].emit_failed + SumEmitFailed(ids \ {id})

\* socketio.emit calls that raised so far
EmitFailed == SumEmitFailed(DOMAIN io)

Fails(ok) == IF ok THEN 0 ELSE 1

\* a device operation and the publish after it fail only while the failure
\* budget lasts
MayFailBoth(ok, emitOk) ==
    failures + EmitFailed + Fails(ok) + Fails(emitOk) <= MaxFailures

\* a device operation fails only while the failure budget lasts
MayFail(ok) == MayFailBoth(ok, TRUE)

SendUpdateRaises(c, emitOk) ==
    IF emitOk
    THEN c
    ELSE [c EXCEPT !.errors = Append(@, "exception"), !.status = "error",
                   !.end_time = "set"]

\* _send_update(capture_id): socketio.emit(...) inside try/except; when emit
\* raises the exception is logged and the caller goes on, the record is not
\* touched
SendUpdate(c, emitOk) == c

\* the publishes of a step, counted when socketio.emit raised
Emitted(id, emitOk) ==
    [io EXCEPT ![id].emit_failed = @ + Fails(emitOk)]

Failed(ok) == IF ok THEN failures ELSE failures + 1

Issue(id, kind, n) == [cmds EXCEPT ![id][kind] = @ + n]

HandleExceptionWithoutEndTime(c) ==
    [c EXCEPT !.errors = Append(@, "exception"),
              !.status = "error"]

\* the except clause of the worker: record the error, status error, end time
HandleException(c) ==
    [c EXCEPT !.errors = Append(@, "exception"),
              !.status = "error",
              !.end_time = "set"]

SessionStartFailedKeepsRunning(c) ==
    [c EXCEPT !.errors = Append(@, "session")]

\* camera.start_capture_session() returned False at the start of the worker
SessionStartFailed(c) ==
    [c EXCEPT !.errors = Append(@, "session"),
              !.status = "error"]

\* capture_info['status'] = 'running'
W_Begin(id, emitOk) ==
    /\ id \in Registered
    /\ wk[id].pc = "begin"
    /\ MayFail(emitOk)
    /\ active_captures' =
          [active_captures EXCEPT ![id] =
              SendUpdate([@ EXCEPT !.status = "running"], emitOk)]
    /\ cmds' = cmds
    /\ wk' = [wk EXCEPT ![id].pc = "session"]
    /\ UNCHANGED <<cardImages, saved, stopPc, stopId, stopRet, stopAt,
                   failures>>
    /\ io' = Emitted(id, emitOk)
    /\ UNCHANGED api

\* os.makedirs(save_dir), then camera.start_capture_session()
W_StartSession(id, outcome, emitOk) ==
    /\ id \in Registered
    /\ wk[id].pc = "session"
    /\ MayFailBoth(outcome = "ok", emitOk)
    /\ failures' = Failed(outcome = "ok")
    /\ CASE outcome = "raise" ->
              /\ active_captures' =
                    [active_captures EXCEPT ![id] =
                        SendUpdate(HandleException(@), emitOk)]
              /\ wk' = [wk EXCEPT ![id].pc = "done"]
              /\ cmds' = cmds
         [] outcome = "fail" ->
              /\ active_captures' =
                    [active_captures EXCEPT ![id] =
                        SendUpdate(SessionStartFailed(@), emitOk)]
              /\ wk' = [wk EXCEPT ![id].pc = "done"]
              /\ cmds' = Issue(id, "session", 1)
         [] outcome = "ok" ->
              /\ emitOk
              /\ active_captures' = active_captures
              /\ wk' = [wk EXCEPT ![id].pc =
                            IF FastMode(id) THEN "watermark" ELSE "arm"]
              /\ cmds' = Issue(id, "session", 1)
    /\ UNCHANGED <<cardImages, saved, stopPc, stopId, stopRet, stopAt>>
    /\ io' = Emitted(id, emitOk)
    /\ UNCHANGED api

\* fast mode: images_before = camera.get_image_count_on_camera()
W_Watermark(id, ok) ==
    /\ id \in Registered
    /\ wk[id].pc = "watermark"
    /\ MayFail(ok)
    /\ failures' = Failed(ok)
    /\ active_captures' =
          [active_captures EXCEPT ![id].images_before_capture =
              IF ok THEN cardImages ELSE 0]
    /\ cmds' = Issue(id, "count", 1)
    /\ wk' = [wk EXCEPT ![id].pc = "bracket"]
    /\ UNCHANGED <<cardImages, saved, stopPc, stopId, stopRet, stopAt>>
    /\ UNCHANGED io
    /\ UNCHANGED api

\* standard mode: camera.setup_download_handler(save_dir), result ignored
W_Arm(id) ==
    /\ id \in Registered
    /\ wk[id].pc = "arm"
    /\ cmds' = Issue(id, "arm", 1)
    /\ wk' = [wk EXCEPT ![id].pc = "bracket"]
    /\ UNCHANGED <<active_captures, cardImages, saved, stopPc, stopId,
                   stopRet, stopAt, failures>>
    /\ UNCHANGED io
    /\ UNCHANGED api

SettingsRejectedRetriesTwice(id, c, w, emitOk) ==
    /\ active_captures' =
          [active_captures EXCEPT ![id] =
              SendUpdate([c EXCEPT !.errors = Append(@, "settings")],
                         emitOk)]
    /\ wk' = [wk EXCEPT ![id] = [w EXCEPT !.bracket_idx = @ + 1]]
    /\ cmds' = Issue(id, "apply", 3)

SettingsRejectedAborts(id, c, w, emitOk) ==
    /\ active_captures' =
          [active_captures EXCEPT ![id] =
              SendUpdate([c EXCEPT !.errors = Append(@, "settings"), !.status = "error"],
                         emitOk)]
    /\ wk' = [wk EXCEPT ![id] = [w EXCEPT !.pc = "done"]]
    /\ cmds' = Issue(id, "apply", 1)

\* what the worker does when camera.apply_settings rejects the settings
SettingsRejected(id, c, w, emitOk) ==
    /\ active_captures' =
          [active_captures EXCEPT ![id] =
              SendUpdate([c EXCEPT !.errors = Append(@, "settings")],
                         emitOk)]
    /\ wk' = [wk EXCEPT ![id] = [w EXCEPT !.bracket_idx = @ + 1]]
    /\ cmds' = Issue(id, "apply", 1)

\* top of the bracket loop: progress, then camera.apply_settings(settings)
W_Bracket(id, ok, emitOk) ==
    /\ id \in Registered
    /\ wk[id].pc = "bracket"
    /\ wk[id].bracket_idx < Len(Brackets(id))
    /\ MayFailBoth(ok, emitOk)
    /\ failures' = Failed(ok)
    /\ LET c == [active_captures[id] EXCEPT
                    !.progress.current_bracket = wk[id].bracket_idx + 1,
                    !.progress.current_frame = 0]
       IN IF ok
          THEN /\ active_captures' =
                     [active_captures EXCEPT ![id] = SendUpdate(c, emitOk)]
               /\ wk' = [wk EXCEPT ![id].pc = "frame", ![id].frame_idx = 0]
               /\ cmds' = Issue(id, "apply", 1)
          ELSE SettingsRejected(id, c, wk[id], emitOk)
    /\ UNCHANGED <<cardImages, saved, stopPc, stopId, stopRet, stopAt>>
    /\ io' = Emitted(id, emitOk)
    /\ UNCHANGED api

\* the bracket loop is exhausted: bulk download in fast mode, else save
W_BracketsDone(id, emitOk) ==
    /\ id \in Registered
    /\ wk[id].pc = "bracket"
    /\ wk[id].bracket_idx = Len(Brackets(id))
    /\ MayFail(emitOk)
    /\ IF FastMode(id)
       THEN /\ active_captures' =
                  [active_captures EXCEPT ![id] =
                      SendUpdate([@ EXCEPT !.status = "downloading"], emitOk)]
            /\ wk' = [wk EXCEPT ![id].pc = "dl_session"]
       ELSE /\ emitOk
            /\ active_captures' = active_captures
            /\ wk' = [wk EXCEPT ![id].pc = "save"]
    /\ cmds' = cmds
    /\ UNCHANGED <<cardImages, saved, stopPc, stopId, stopRet, stopAt,
                   failures>>
    /\ io' = Emitted(id, emitOk)
    /\ UNCHANGED api

FramesOfOneLess(bracket) == bracket.frames - 1

\* frames = bracket.get('frames', 0)
FramesOf(bracket) == bracket.frames

StopRequestedNever(c) == FALSE

\* the check the worker makes at the top of a frame iteration
StopRequested(c) == c.status = "stopping"

MarkStoppedResetFrame(c) ==
    [c EXCEPT !.status = "stopped", !.progress.current_frame = 0]

\* capture_info['status'] = 'stopped'
MarkStopped(c) == [c EXCEPT !.status = "stopped"]

\* top of the frame loop: the stop check, then progress
W_FrameTop(id, emitOk) ==
    /\ id \in Registered
    /\ wk[id].pc = "frame"
    /\ MayFail(emitOk)
    /\ cmds' = cmds
    /\ LET c == active_captures[id]
           w == wk[id]
           frames == FramesOf(Brackets(id)[w.bracket_idx + 1])
       IN IF w.frame_idx < frames
          THEN IF StopRequested(c)
               THEN /\ active_captures' =
                          [active_captures EXCEPT ![id] =
                              SendUpdate(MarkStopped(@), emitOk)]
                    /\ wk' = [wk EXCEPT ![id].pc = "done"]
               ELSE /\ active_captures' =
                          [active_captures EXCEPT ![id] =
                              SendUpdate([@ EXCEPT !.progress.current_frame =
                                                       w.frame_idx + 1],
                                         emitOk)]
                    /\ wk' = [wk EXCEPT
                                ![id].pc = IF FocusStack(id).enabled
                                           THEN "focus" ELSE "shot",
                                ![id].focus_idx = 0,
                                ![id].total_movement = 0,
                                ![id].focus_log = <<>>,
                                ![id].frame_log = <<>>]
          ELSE /\ emitOk
               /\ active_captures' = active_captures
               /\ wk' = [wk EXCEPT ![id].pc = "bracket",
                                   ![id].bracket_idx = @ + 1,
                                   ![id].frame_idx = 0]
    /\ UNCHANGED <<cardImages, saved, stopPc, stopId, stopRet, stopAt,
                   failures>>
    /\ io' = Emitted(id, emitOk)
    /\ UNCHANGED api

AfterPictureUncounts(c, ok) ==
    IF ok
    THEN [c EXCEPT !.progress.completed_frames = @ + 1]
    ELSE [c EXCEPT !.progress.completed_frames = @ - 1,
                   !.progress.failed_frames = @ + 1,
                   !.errors = Append(@, "shot")]

AfterPictureCountsTwice(c, ok) ==
    IF ok
    THEN [c EXCEPT !.progress.completed_frames = @ + 1]
    ELSE [c EXCEPT !.progress.completed_frames = @ + 1,
                   !.progress.failed_frames = @ + 1,
                   !.errors = Append(@, "shot")]

AfterPictureDropsError(c, ok) ==
    IF ok
    THEN [c EXCEPT !.progress.completed_frames = @ + 1]
    ELSE [c EXCEPT !.progress.failed_frames = @ + 1]

\* bookkeeping after camera.take_picture returned (success, message)
AfterPicture(c, ok) ==
    IF ok
    THEN [c EXCEPT !.progress.completed_frames = @ + 1]
    ELSE [c EXCEPT !.progress.failed_frames = @ + 1,
                   !.errors = Append(@, "shot")]

\* the card gains an image when a shot saved to the camera succeeds
CardAfter(id, ok) == IF FastMode(id) /\ ok THEN cardImages + 1 ELSE cardImages

SaveToCameraAlways(id) == TRUE

\* take_picture(save_to_camera=fast_mode): fast_mode is fixed at worker start
SaveToCamera(id) == FastMode(id)

\* one take_picture(save_to_camera=fast_mode) and the focus moves after it
ShotCmds(id, moves) ==
    [cmds EXCEPT ![id].shot = @ + 1, ![id].focus = @ + moves]

\* the same take_picture and the publish after it, as the card and the
\* status sink see them
ShotIo(id, emitOk) ==
    [io EXCEPT ![id].to_camera = @ + (IF SaveToCamera(id) THEN 1 ELSE 0),
               ![id].emit_failed = @ + Fails(emitOk)]

\* the device commands of a frame, as sent to the camera
TakePicture == [cmd |-> "take_picture", value |-> 0]

AdjustFocus(step_value) == [cmd |-> "adjust_focus", value |-> step_value]

\* regular single-focus capture of one frame, then the inter-frame delay
W_Shot(id, ok, emitOk) ==
    /\ id \in Registered
    /\ wk[id].pc = "shot"
    /\ MayFailBoth(ok, emitOk)
    /\ failures' = Failed(ok)
    /\ active_captures' =
          [active_captures EXCEPT ![id] =
              SendUpdate(AfterPicture(@, ok), emitOk)]
    /\ cardImages' = CardAfter(id, ok)
    /\ cmds' = ShotCmds(id, 0)
    /\ wk' = [wk EXCEPT ![id].pc = "frame", ![id].frame_idx = @ + 1,
                         ![id].frame_log = Append(@, TakePicture)]
    /\ UNCHANGED <<saved, stopPc, stopId, stopRet, stopAt>>
    /\ io' = ShotIo(id, emitOk)
    /\ UNCHANGED api

\* one camera.adjust_focus call of the current frame, as the worker saw it
FocusCmd(kind, value) == [kind |-> kind, value |-> value]

StepValueOfStepSize(fs) ==
    IF fs.direction = "near" THEN fs.step_size ELSE -fs.step_size

\* the value handed to camera.adjust_focus for a forward move of the stack
StepValue(fs) ==
    LET step_direction == IF fs.direction = "near"
                          THEN fs.step_size ELSE -fs.step_size
    IN IF step_direction # 0
       THEN (IF step_direction > 0 THEN 1 ELSE -1) * fs.speed
       ELSE step_direction

FocusMoveFailedGoesOn(id, c, fs) ==
    /\ active_captures' =
          [active_captures EXCEPT ![id] =
              [c EXCEPT !.errors = Append(@, "focus")]]
    /\ wk' = [wk EXCEPT
                ![id].focus_idx = @ + 1,
                ![id].focus_log =
                    Append(@, FocusCmd("forward_failed", StepValue(fs))),
                ![id].frame_log =
                    @ \o <<TakePicture, AdjustFocus(StepValue(fs))>>]

\* camera.adjust_focus(step_value) of a forward move returned failure: the
\* error is recorded and the loop over the positions is left
FocusMoveFailed(id, c, fs) ==
    /\ active_captures' =
          [active_captures EXCEPT ![id] =
              [c EXCEPT !.errors = Append(@, "focus")]]
    /\ wk' = [wk EXCEPT
                ![id].pc = "reset",
                ![id].focus_log =
                    Append(@, FocusCmd("forward_failed", StepValue(fs))),
                ![id].frame_log =
                    @ \o <<TakePicture, AdjustFocus(StepValue(fs))>>]

\* one focus position of the stack: the exposure, then (unless it is the
\* last position) the forward focus move
W_FocusPosition(id, shotOk, moveOk, emitOk) ==
    /\ id \in Registered
    /\ wk[id].pc = "focus"
    /\ LET fs == FocusStack(id)
           w == wk[id]
           last == ~(w.focus_idx < fs.steps - 1)
           fails == Fails(shotOk) + Fails(moveOk)
           c == SendUpdate(AfterPicture(active_captures[id], shotOk), emitOk)
       IN /\ last => moveOk
          /\ failures + EmitFailed + fails + Fails(emitOk) <= MaxFailures
          /\ failures' = failures + fails
          /\ cardImages' = CardAfter(id, shotOk)
          /\ IF last
             THEN /\ active_captures' = [active_captures EXCEPT ![id] = c]
                  /\ wk' = [wk EXCEPT ![id].pc = "reset",
                                      ![id].focus_idx = @ + 1,
                                      ![id].frame_log = Append(@, TakePicture)]
                  /\ cmds' = ShotCmds(id, 0)
             ELSE /\ cmds' = ShotCmds(id, 1)
                  /\ IF moveOk
                     THEN /\ active_captures' =
                                [active_captures EXCEPT ![id] = c]
                          /\ wk' = [wk EXCEPT
                                      ![id].total_movement = @ + StepValue(fs),
                                      ![id].focus_idx = @ + 1,
                                      ![id].focus_log =
                                          Append(@, FocusCmd("forward",
                                                             StepValue(fs))),
                                      ![id].frame_log =
                                          @ \o <<TakePicture,
                                                 AdjustFocus(StepValue(fs))>>]
                     ELSE FocusMoveFailed(id, c, fs)
    /\ UNCHANGED <<saved, stopPc, stopId, stopRet, stopAt>>
    /\ io' = ShotIo(id, emitOk)
    /\ UNCHANGED api

ResetValueSameSign(total_movement) == total_movement

\* the value of the compensating move after the stack
ResetValue(total_movement) == -total_movement

ResetCommandsCenterFirst(total_movement) ==
    <<AdjustFocus(0)>>
    \o (IF total_movement # 0
        THEN <<AdjustFocus(ResetValue(total_movement))>> ELSE <<>>)
    \o <<TakePicture>>

\* the device commands after the last position of the stack
ResetCommands(total_movement) ==
    (IF total_movement # 0
     THEN <<AdjustFocus(ResetValue(total_movement))>> ELSE <<>>)
    \o <<TakePicture, AdjustFocus(0)>>

\* after the stack: compensating move, reset-position exposure, centering
\* move adjust_focus(0), then the inter-frame delay
W_FocusReset(id, shotOk, emitOk) ==
    /\ id \in Registered
    /\ wk[id].pc = "reset"
    /\ MayFailBoth(shotOk, emitOk)
    /\ failures' = Failed(shotOk)
    /\ active_captures' =
          [active_captures EXCEPT ![id] =
              SendUpdate(AfterPicture(@, shotOk), emitOk)]
    /\ cardImages' = CardAfter(id, shotOk)
    /\ cmds' = ShotCmds(id, IF wk[id].total_movement # 0 THEN 2 ELSE 1)
    /\ wk' = [wk EXCEPT
                ![id].pc = "frame",
                ![id].frame_idx = @ + 1,
                ![id].focus_log =
                    (IF wk[id].total_movement # 0
                     THEN Append(@, FocusCmd("reset",
                                             ResetValue(wk[id].total_movement)))
                     ELSE @) \o <<FocusCmd("center", 0)>>,
                ![id].frame_log = @ \o ResetCommands(wk[id].total_movement)]
    /\ UNCHANGED <<saved, stopPc, stopId, stopRet, stopAt>>
    /\ io' = ShotIo(id, emitOk)
    /\ UNCHANGED api

\* fast mode: camera.start_capture_session() before the bulk download
W_DlSession(id, ok) ==
    /\ id \in Registered
    /\ wk[id].pc = "dl_session"
    /\ MayFail(ok)
    /\ failures' = Failed(ok)
    /\ active_captures' =
          IF ok THEN active_captures
          ELSE [active_captures EXCEPT ![id].errors = Append(@, "dl_session")]
    /\ cmds' = Issue(id, "session", 1)
    /\ wk' = [wk EXCEPT ![id].pc = "dl_count"]
    /\ UNCHANGED <<cardImages, saved, stopPc, stopId, stopRet, stopAt>>
    /\ UNCHANGED io
    /\ UNCHANGED api

NewImagesIgnoringWatermark(images_after, images_before) == images_after

\* new_images = images_after - images_before
NewImages(images_after, images_before) == images_after - images_before

\* fast mode: count the images on the card.  outcome "ok": the count is
\* read; "zero": the SDK reports an error and the count reads 0; "raise":
\* get_image_count_on_camera raises, the handler leaves images_after
\* unbound and the statement after it raises into the worker's except clause
W_DlCount(id, outcome, emitOk) ==
    /\ id \in Registered
    /\ wk[id].pc = "dl_count"
    /\ MayFailBoth(outcome = "ok", emitOk)
    /\ failures' = Failed(outcome = "ok")
    /\ cmds' = Issue(id, "count", 1)
    /\ LET c == active_captures[id]
           images_after == IF outcome = "ok" THEN cardImages ELSE 0
           new_images == NewImages(images_after, c.images_before_capture)
       IN IF outcome = "raise"
          THEN /\ active_captures' =
                     [active_captures EXCEPT ![id] =
                         SendUpdate(HandleException(c), emitOk)]
               /\ wk' = [wk EXCEPT ![id].pc = "done"]
          ELSE IF new_images <= 0
          THEN /\ active_captures' =
                     [active_captures EXCEPT ![id] =
                         SendUpdate([c EXCEPT !.status = "completed",
                                              !.end_time = "set"], emitOk)]
               /\ wk' = [wk EXCEPT ![id].pc = "done",
                                   ![id].images_after = images_after]
          ELSE /\ emitOk
               /\ active_captures' = active_captures
               /\ wk' = [wk EXCEPT ![id].pc = "download",
                                   ![id].images_after = images_after,
                                   ![id].new_images = new_images]
    /\ UNCHANGED <<cardImages, saved, stopPc, stopId, stopRet, stopAt>>
    /\ io' = Emitted(id, emitOk)
    /\ UNCHANGED api

\* download_images_from_camera(max_images = n): the n newest images
NewestFirst(n) ==
    LET k == IF n < cardImages THEN n ELSE cardImages
    IN [i \in 1..k |-> cardImages + 1 - i]

\* fast mode: camera.bulk_download(save_dir, max_images=new_images)
W_Download(id, ok) ==
    /\ id \in Registered
    /\ wk[id].pc = "download"
    /\ MayFail(ok)
    /\ failures' = Failed(ok)
    /\ active_captures' =
          IF ok
          THEN [active_captures EXCEPT
                   ![id].results = NewestFirst(wk[id].new_images)]
          ELSE [active_captures EXCEPT ![id].errors = Append(@, "download")]
    /\ cmds' = [cmds EXCEPT ![id].download = @ + 1,
                            ![id].max_images = wk[id].new_images]
    /\ wk' = [wk EXCEPT ![id].pc = "save"]
    /\ UNCHANGED <<cardImages, saved, stopPc, stopId, stopRet, stopAt>>
    /\ UNCHANGED io
    /\ UNCHANGED api

\* _save_capture_info: the summary record; a failed write is swallowed
SaveInfo(c) ==
    [status |-> c.status, capture_mode |-> c.data.capture_mode,
     brackets |-> c.data.brackets, progress |-> c.progress,
     errors |-> c.errors]

W_Save(id, ok) ==
    /\ id \in Registered
    /\ wk[id].pc = "save"
    /\ MayFail(ok)
    /\ failures' = Failed(ok)
    /\ saved' = IF ok
                THEN [saved EXCEPT ![id] = Append(@, SaveInfo(active_captures[id]))]
                ELSE saved
    /\ cmds' = Issue(id, "save", 1)
    /\ wk' = [wk EXCEPT ![id].pc = "complete"]
    /\ UNCHANGED <<active_captures, cardImages, stopPc, stopId, stopRet,
                   stopAt>>
    /\ UNCHANGED io
    /\ UNCHANGED api

\* capture_info['status'] = 'completed', with the end time
W_Complete(id, emitOk) ==
    /\ id \in Registered
    /\ wk[id].pc = "complete"
    /\ MayFail(emitOk)
    /\ active_captures' =
          [active_captures EXCEPT ![id] =
              SendUpdate([@ EXCEPT !.status = "completed",
                                   !.end_time = "set"], emitOk)]
    /\ cmds' = cmds
    /\ wk' = [wk EXCEPT ![id].pc = "done"]
    /\ UNCHANGED <<cardImages, saved, stopPc, stopId, stopRet, stopAt,
                   failures>>
    /\ io' = Emitted(id, emitOk)
    /\ UNCHANGED api

\* ------------------------------------------------------------ stop_capture
\* worker positions at which a frame of a bracket is in progress
FrameBody == {"shot", "focus", "reset"}

StoppableWhateverStatus(reg, capture_id) == capture_id \in DOMAIN reg

\* the condition under which stop_capture goes on to set 'stopping'
Stoppable(reg, capture_id) ==
    capture_id \in DOMAIN reg /\ reg[capture_id].status = "running"

\* stop_capture, first half: look the capture up and test its status;
\* returns False at once unless the status read is 'running'
StopCheck(capture_id) ==
    /\ stopPc = "idle"
    /\ stopId' = capture_id
    /\ IF Stoppable(active_captures, capture_id)
       THEN stopPc' = "set" /\ stopRet' = "none"
       ELSE stopPc' = "idle" /\ stopRet' = "false"
    /\ UNCHANGED <<active_captures, wk, cardImages, cmds, saved, stopAt,
                   failures>>
    /\ UNCHANGED io
    /\ UNCHANGED api

\* stop_capture, second half: capture_info['status'] = 'stopping', return True
StopSet(emitOk) ==
    /\ stopPc = "set"
    /\ MayFail(emitOk)
    /\ active_captures' =
          [active_captures EXCEPT ![stopId] =
              SendUpdate([@ EXCEPT !.status = "stopping"], emitOk)]
    /\ cmds' = cmds
    /\ stopPc' = "idle"
    /\ stopRet' = "true"
    /\ stopAt' = [stopAt EXCEPT ![stopId] =
                     IF wk[stopId].pc \in FrameBody THEN "frame" ELSE "between"]
    /\ UNCHANGED <<wk, cardImages, saved, stopId, failures>>
    /\ io' = Emitted(stopId, emitOk)
    /\ UNCHANGED api

\* ------------------------------------------------------ get_capture_status
CaptureStatusUnchecked(reg, capture_id) ==
    IF capture_id \in DOMAIN reg
    THEN reg[capture_id]
    ELSE [error |-> "KeyError"]

\* the value get_capture_status returns
CaptureStatus(reg, capture_id) ==
    IF capture_id \in DOMAIN reg
    THEN reg[capture_id]
    ELSE [error |-> "Capture not found"]

GetCaptureStatus(capture_id) ==
    /\ getRet' = <<capture_id, CaptureStatus(active_captures, capture_id)>>
    /\ UNCHANGED <<active_captures, wk, cardImages, cmds, saved, stopPc,
                   stopId, stopRet, stopAt, failures, io, capture_threads,
                   startRet, calc>>

\* ------------------------------------------------------ ExposureCalculator
\* Exposure values are fixed-point numbers in thousandths of a stop; an
\* aperture is in tenths of an f-number; a value that may be None is a
\* sequence of length at most one.
MaxBrackets == 4      \* num_brackets of one generate_brackets_by_ev call

ISO_VALUES ==
    <<50, 100, 200, 400, 800, 1600, 3200, 6400, 12800, 25600, 51200,
    102400>>

APERTURE_VALUES ==
    <<10, 14, 20, 28, 40, 56, 80, 110, 160, 220, 320>>

SHUTTER_SPEEDS ==
    <<"512", "256", "128", "64", "30", "15", "8", "4", "2", "1", "1/2",
    "1/4", "1/8", "1/15", "1/30", "1/60", "1/125", "1/250", "1/500",
    "1/1000", "1/2000", "1/4000", "1/8000">>

Log2Iso ==
    <<5644, 6644, 7644, 8644, 9644, 10644, 11644, 12644, 13644, 14644,
    15644, 16644>>

Log2Aperture ==
    <<0, 485, 1000, 1485, 2000, 2485, 3000, 3459, 4000, 4459, 5000>>

Log2Shutter ==
    <<9000, 8000, 7000, 6000, 4907, 3907, 3000, 2000, 1000, 0, -1000, -2000,
    -3000, -3907, -4907, -5907, -6966, -7966, -8966, -9966, -10966, -11966,
    -12966>>

Log2IsoMidpoints ==
    <<6229, 7229, 8229, 9229, 10229, 11229, 12229, 13229, 14229, 15229,
    16229>>

Log2ApertureMidpoints ==
    <<263, 766, 1263, 1766, 2263, 2766, 3248, 3755, 4248, 4755>>

Log2ShutterMidpoints ==
    <<8585, 7585, 6585, 5555, 4492, 3524, 2585, 1585, 585, -415, -1415,
    -2415, -3383, -4322, -5322, -6341, -7381, -8381, -9381, -10381, -11381,
    -12381>>

\* the third-stop tables, and log2 of their entries
ISO_VALUES_THIRD ==
    <<50, 64, 80, 100, 125, 160, 200, 250, 320, 400, 500, 640, 800, 1000,
    1250, 1600, 2000, 2500, 3200, 4000, 5000, 6400, 8000, 10000, 12800,
    16000, 20000, 25600, 32000, 40000, 51200, 64000, 80000, 102400>>

APERTURE_VALUES_THIRD ==
    <<10, 11, 12, 14, 16, 18, 20, 22, 25, 28, 32, 35, 40, 45, 50, 56, 63,
    71, 80, 90, 100, 110, 130, 140, 160, 180, 200, 220, 250, 290, 320>>

SHUTTER_SPEEDS_THIRD ==
    <<"512", "400", "320", "256", "200", "160", "128", "100", "80", "64",
    "50", "40", "30", "25", "20", "15", "13", "10", "8", "6", "5", "4",
    "3.2", "2.5", "2", "1.6", "1.3", "1", "0.8", "0.6", "0.5", "0.4",
    "0.3", "1/4", "1/5", "1/6", "1/8", "1/10", "1/13", "1/15", "1/20",
    "1/25", "1/30", "1/40", "1/50", "1/60", "1/80", "1/100", "1/125",
    "1/160", "1/200", "1/250", "1/320", "1/400", "1/500", "1/640",
    "1/800", "1/1000", "1/1250", "1/1600", "1/2000", "1/2500", "1/3200",
    "1/4000", "1/5000", "1/6400", "1/8000">>

Log2IsoThird ==
    <<5644, 6000, 6322, 6644, 6966, 7322, 7644, 7966, 8322, 8644, 8966,
    9322, 9644, 9966, 10288, 10644, 10966, 11288, 11644, 11966, 12288,
    12644, 12966, 13288, 13644, 13966, 14288, 14644, 14966, 15288, 15644,
    15966, 16288, 16644>>

Log2ApertureThird ==
    <<0, 138, 263, 485, 678, 848, 1000, 1138, 1322, 1485, 1678, 1807, 2000,
    2170, 2322, 2485, 2655, 2828, 3000, 3170, 3322, 3459, 3700, 3807,
    4000, 4170, 4322, 4459, 4644, 4858, 5000>>

Log2ShutterThird ==
    <<9000, 8644, 8322, 8000, 7644, 7322, 7000, 6644, 6322, 6000, 5644,
    5322, 4907, 4644, 4322, 3907, 3700, 3322, 3000, 2585, 2322, 2000,
    1678, 1322, 1000, 678, 379, 0, -322, -737, -1000, -1322, -1737, -2000,
    -2322, -2585, -3000, -3322, -3700, -3907, -4322, -4644, -4907, -5322,
    -5644, -5907, -6322, -6644, -6966, -7322, -7644, -7966, -8322, -8644,
    -8966, -9322, -9644, -9966, -10288, -10644, -10966, -11288, -11644,
    -11966, -12288, -12644, -12966>>

\* log2 of the value half way between two neighbours of SHUTTER_SPEEDS_THIRD
Log2ShutterThirdMidpoints ==
    <<8833, 8492, 8170, 7833, 7492, 7170, 6833, 6492, 6170, 5833, 5492,
    5129, 4781, 4492, 4129, 3807, 3524, 3170, 2807, 2459, 2170, 1848,
    1511, 1170, 848, 536, 202, -152, -515, -862, -1152, -1515, -1862,
    -2152, -2447, -2778, -3152, -3499, -3800, -4100, -4474, -4769, -5100,
    -5474, -5769, -6100, -6474, -6796, -7133, -7474, -7796, -8133, -8474,
    -8796, -9133, -9474, -9796, -10118, -10455, -10796, -11118, -11455,
    -11796, -12118, -12455, -12796>>

\* log2 of the 100 in (aperture * aperture * 100)
Log2Of100 == 6644

\* log2 of the preferred shutter speed "1/60" of shutter priority
Log2PreferredShutter == -5907

\* 2 ** ev raises OverflowError from this exponent on
FloatMaxExp == 1024000

\* a float whose log2 is at most this is 0.0
FloatMinExp == -1075000

\* abs(x - v) is the same float for every x of ISO_VALUES once log2(v)
\* exceeds this, and min() then returns the first entry
IsoAbsorbExp == 70000

\* the same for APERTURE_VALUES
ApertureAbsorbExp == 58998

\* the calls the model makes: base settings, EV steps, priorities
CalcIsos == {100, 400}

CalcApertures == {28, 80}

CalcShutters == {"1/125", "1", "garbage", "1/0", "0"}

BaseSettings ==
    [iso : CalcIsos, aperture : CalcApertures, shutter_speed : CalcShutters]

EvSteps == {300, 1000, 1100000}

Priorities == {"aperture", "shutter", "iso"}

IndexIn(table, v) == CHOOSE i \in DOMAIN table : table[i] = v

Abs(x) == IF x < 0 THEN -x ELSE x

\* min(table, key=lambda x: abs(x - v)): the first index of least distance
ClosestIndex(table, v) ==
    CHOOSE i \in DOMAIN table :
        \A j \in DOMAIN table :
            \/ Abs(table[i] - v) < Abs(table[j] - v)
            \/ (Abs(table[i] - v) = Abs(table[j] - v) /\ i <= j)

InTable(table, v) == \E i \in DOMAIN table : table[i] = v

\* the strings of the calls that are in neither shutter table, split at "/"
SplitShutter ==
    [s \in {"garbage", "1/0", "0", "1/90", "1/3"} |->
        CASE s = "garbage" -> <<"garbage">>
          [] s = "1/0" -> <<"1", "0">>
          [] s = "0" -> <<"0">>
          [] s = "1/90" -> <<"1", "90">>
          [] s = "1/3" -> <<"1", "3">>]

\* float(part): a sign and the log2 of the magnitude; None when it raises
\* ValueError
FloatOf(part) ==
    CASE part = "0" -> <<[sign |-> 0, log2 |-> 0]>>
      [] part = "1" -> <<[sign |-> 1, log2 |-> 0]>>
      [] part = "3" -> <<[sign |-> 1, log2 |-> 1585]>>
      [] part = "90" -> <<[sign |-> 1, log2 |-> 6492]>>
      [] OTHER -> <<>>

\* the shutter string in seconds: float(parts[0]) / float(parts[1]) when it
\* holds a "/", float(shutter_speed) otherwise; None when float() or the
\* division raises
ShutterSeconds(shutter_speed) ==
    IF InTable(SHUTTER_SPEEDS, shutter_speed)
    THEN <<[sign |-> 1,
            log2 |-> Log2Shutter[IndexIn(SHUTTER_SPEEDS, shutter_speed)]]>>
    ELSE IF InTable(SHUTTER_SPEEDS_THIRD, shutter_speed)
    THEN <<[sign |-> 1,
            log2 |-> Log2ShutterThird[IndexIn(SHUTTER_SPEEDS_THIRD,
                                              shutter_speed)]]>>
    ELSE LET parts == SplitShutter[shutter_speed]
         IN IF Len(parts) = 1 THEN FloatOf(parts[1])
            ELSE LET n == FloatOf(parts[1])
                     d == FloatOf(parts[2])
                 IN IF n = <<>> \/ d = <<>> THEN <<>>
                    ELSE IF d[1].sign = 0 THEN <<>>
                    ELSE <<[sign |-> n[1].sign * d[1].sign,
                            log2 |-> n[1].log2 - d[1].log2]>>

ShutterLog2OfAnyTime(shutter_speed) ==
    LET seconds == ShutterSeconds(shutter_speed)
    IN IF seconds = <<>> THEN <<>>
       ELSE <<seconds[1].log2>>

\* log2 of the shutter time calculate_ev divides by; None when the parse
\* raises, when the division by shutter_seconds * iso raises (0 seconds)
ShutterLog2(shutter_speed) ==
    LET seconds == ShutterSeconds(shutter_speed)
    IN IF seconds = <<>> THEN <<>>
       ELSE IF seconds[1].sign <= 0 THEN <<>>
       ELSE <<seconds[1].log2>>

\* calculate_ev: log2((aperture * aperture * 100) / (shutter_seconds * iso))
CalculateEV(iso, aperture, shutter_speed) ==
    LET t == ShutterLog2(shutter_speed)
    IN IF t = <<>> THEN <<>>
       ELSE <<2 * Log2ApertureThird[IndexIn(APERTURE_VALUES_THIRD, aperture)]
              + Log2Of100 - t[1]
              - Log2IsoThird[IndexIn(ISO_VALUES_THIRD, iso)]>>

\* get_settings_for_ev; None when 2 ** ev overflows or a divisor is 0.0
SettingsForEV(ev, iso, priority, preferred_aperture) ==
    IF ev >= FloatMaxExp THEN <<>>
    ELSE IF priority = "aperture"
    THEN IF ev <= FloatMinExp THEN <<>>
         ELSE LET a == ClosestIndex(APERTURE_VALUES, preferred_aperture)
                  seconds == 2 * Log2Aperture[a] + Log2Of100
                             - Log2Iso[IndexIn(ISO_VALUES, iso)] - ev
                  closest_idx ==
                      1 + Cardinality({k \in DOMAIN Log2ShutterMidpoints :
                                          Log2ShutterMidpoints[k] > seconds})
              IN <<[iso |-> iso, aperture |-> APERTURE_VALUES[a],
                    shutter_speed |-> SHUTTER_SPEEDS[closest_idx]]>>
    ELSE IF priority = "shutter"
    THEN LET aperture_value2 == Log2Iso[IndexIn(ISO_VALUES, iso)]
                                + Log2PreferredShutter + ev - Log2Of100
             closest_idx ==
                 IF aperture_value2 > 2 * ApertureAbsorbExp THEN 1
                 ELSE 1 + Cardinality({k \in DOMAIN Log2ApertureMidpoints :
                                          2 * Log2ApertureMidpoints[k]
                                             < aperture_value2})
         IN <<[iso |-> iso, aperture |-> APERTURE_VALUES[closest_idx],
               shutter_speed |-> "1/60"]>>
    ELSE IF ev + Log2Shutter[IndexIn(SHUTTER_SPEEDS, "1/125")] <= FloatMinExp
    THEN <<>>
    ELSE LET iso_value == 2 * Log2Aperture[IndexIn(APERTURE_VALUES, 80)]
                          + Log2Of100
                          - Log2Shutter[IndexIn(SHUTTER_SPEEDS, "1/125")] - ev
             closest_idx ==
                 IF iso_value > IsoAbsorbExp THEN 1
                 ELSE 1 + Cardinality({k \in DOMAIN Log2IsoMidpoints :
                                          Log2IsoMidpoints[k] < iso_value})
         IN <<[iso |-> ISO_VALUES[closest_idx], aperture |-> 80,
               shutter_speed |-> "1/125"]>>

StartEVAtBase(base_ev, ev_steps, num_brackets) == base_ev

\* start_ev of generate_brackets_by_ev (ev_steps / 2 is exact for the even
\* steps of EvSteps)
StartEV(base_ev, ev_steps, num_brackets) ==
    IF num_brackets % 2 = 1
    THEN base_ev + ev_steps * (num_brackets \div 2)
    ELSE base_ev + ev_steps * ((num_brackets - 1) \div 2) + ev_steps \div 2

EvValuesAscending(start_ev, ev_steps, num_brackets) ==
    [i \in 1..num_brackets |-> start_ev + (i - 1) * ev_steps]

\* ev_values = [start_ev - (i * ev_steps) for i in range(num_brackets)]
EvValues(start_ev, ev_steps, num_brackets) ==
    [i \in 1..num_brackets |-> start_ev - (i - 1) * ev_steps]

\* --- the Python floats of the ladder, bit for bit.  A float is a sign and a
\* magnitude w + hi / 2^28 + lo / 2^56; every float of magnitude 1/16 or more
\* is such a number, and so is every sum or difference of two of them
Limb == 268435456

FloatZero == [neg |-> FALSE, w |-> 0, hi |-> 0, lo |-> 0]

\* carries and borrows between the parts of a magnitude
Carry(neg, w, hi, lo) ==
    LET hi2 == hi + (lo \div Limb)
    IN [neg |-> neg, w |-> w + (hi2 \div Limb), hi |-> hi2 % Limb,
        lo |-> lo % Limb]

MagLess(a, b) ==
    \/ a.w < b.w
    \/ a.w = b.w /\ a.hi < b.hi
    \/ a.w = b.w /\ a.hi = b.hi /\ a.lo < b.lo

\* the sum of two floats before it is rounded
ExactAdd(a, b) ==
    IF a.neg = b.neg
    THEN Carry(a.neg, a.w + b.w, a.hi + b.hi, a.lo + b.lo)
    ELSE IF MagLess(a, b)
    THEN Carry(b.neg, b.w - a.w, b.hi - a.hi, b.lo - a.lo)
    ELSE IF MagLess(b, a)
    THEN Carry(a.neg, a.w - b.w, a.hi - b.hi, a.lo - b.lo)
    ELSE FloatZero

\* the binary exponent of a magnitude of 1/16 or more
Exponent(x) ==
    IF x.w > 0 THEN Cardinality({k \in 1..30 : 2^k <= x.w})
    ELSE IF x.hi >= 2^27 THEN -1
    ELSE IF x.hi >= 2^26 THEN -2
    ELSE IF x.hi >= 2^25 THEN -3
    ELSE -4

\* a float keeps 53 significant bits: round to nearest, ties to even
RoundNearestEven(x) ==
    LET q == 2^(4 + Exponent(x))
        r == x.lo % q
        down == x.lo - r
        up == \/ 2 * r > q
              \/ 2 * r = q /\ (down \div q) % 2 = 1
    IN Carry(x.neg, x.w, x.hi, IF up THEN down + q ELSE down)

Negated(x) == [x EXCEPT !.neg = ~x.neg]

\* a + b and a - b of two floats
FloatAdd(a, b) == RoundNearestEven(ExactAdd(a, b))

FloatSub(a, b) == FloatAdd(a, Negated(b))

RECURSIVE ExactTimes(_, _)
ExactTimes(i, x) == IF i = 0 THEN FloatZero ELSE ExactAdd(x, ExactTimes(i - 1, x))

\* i * x for an int i >= 0 and a float x
FloatTimes(i, x) == RoundNearestEven(ExactTimes(i, x))

\* x / 2, exact
FloatHalf(x) ==
    [neg |-> x.neg, w |-> x.w \div 2,
     hi |-> (x.hi + (x.w % 2) * Limb) \div 2,
     lo |-> (x.lo + (x.hi % 2) * Limb) \div 2]

\* -1, 0, 1 as the float is < 0, == 0, > 0
FloatSign(x) ==
    IF x.w = 0 /\ x.hi = 0 /\ x.lo = 0 THEN 0
    ELSE IF x.neg THEN -1 ELSE 1

\* the float ev_steps of the calls
FloatOfStep(ev_steps) ==
    CASE ev_steps = 300 ->
            [neg |-> FALSE, w |-> 0, hi |-> 80530636, lo |-> 214748364]
      [] ev_steps = 1000 -> [neg |-> FALSE, w |-> 1, hi |-> 0, lo |-> 0]
      [] ev_steps = 1100000 -> [neg |-> FALSE, w |-> 1100, hi |-> 0, lo |-> 0]

\* the float calculate_ev returns for the base settings of the calls:
\* math.log2((aperture * aperture * 100) / (shutter_seconds * iso))
FloatOfBaseEV(base_settings) ==
    LET b == <<base_settings.iso, base_settings.aperture,
               base_settings.shutter_speed>>
    IN CASE b = <<100, 28, "1/125">> ->
               [neg |-> FALSE, w |-> 9, hi |-> 251426832, lo |-> 70613376]
         [] b = <<100, 28, "1">> ->
               [neg |-> FALSE, w |-> 2, hi |-> 260611543, lo |-> 110636768]
         [] b = <<100, 80, "1/125">> ->
               [neg |-> FALSE, w |-> 12, hi |-> 259250744, lo |-> 228412032]
         [] b = <<100, 80, "1">> ->
               [neg |-> FALSE, w |-> 6, hi |-> 0, lo |-> 0]
         [] b = <<400, 28, "1/125">> ->
               [neg |-> FALSE, w |-> 7, hi |-> 251426832, lo |-> 70613312]
         [] b = <<400, 28, "1">> ->
               [neg |-> FALSE, w |-> 0, hi |-> 260611543, lo |-> 110636752]
         [] b = <<400, 80, "1/125">> ->
               [neg |-> FALSE, w |-> 10, hi |-> 259250744, lo |-> 228412032]
         [] b = <<400, 80, "1">> ->
               [neg |-> FALSE, w |-> 4, hi |-> 0, lo |-> 0]
         \* calculate_ev returned None: no ladder is built from it
         [] OTHER -> FloatZero

\* start_ev as the float the code computes, left to right
FloatStartEV(base_ev, ev_steps, num_brackets) ==
    IF num_brackets % 2 = 1
    THEN FloatAdd(base_ev, FloatTimes(num_brackets \div 2, ev_steps))
    ELSE FloatAdd(FloatAdd(base_ev,
                           FloatTimes((num_brackets - 1) \div 2, ev_steps)),
                  FloatHalf(ev_steps))

\* the sign of ev_diff = base_ev - ev for each ev = start_ev - (i * ev_steps)
EvDiffSigns(base_ev, ev_steps, num_brackets) ==
    LET start_ev == FloatStartEV(base_ev, ev_steps, num_brackets)
    IN [i \in 1..num_brackets |->
          FloatSign(FloatSub(base_ev,
                             FloatSub(start_ev,
                                      FloatTimes(i - 1, ev_steps))))]

BracketName(ev_diff) ==
    IF ev_diff > 0 THEN "Under"
    ELSE IF ev_diff < 0 THEN "Over" ELSE "Base Exposure"

\* the loop over ev_values: an EV without settings adds no bracket
RECURSIVE BracketsFor(_, _, _, _, _)
BracketsFor(ev_values, signs, base_ev, base_settings, priority) ==
    IF ev_values = <<>> THEN <<>>
    ELSE LET ev == Head(ev_values)
             bracket_settings ==
                 SettingsForEV(ev, base_settings.iso, priority,
                               base_settings.aperture)
             rest == BracketsFor(Tail(ev_values), Tail(signs), base_ev,
                                 base_settings, priority)
         IN IF bracket_settings # <<>>
            THEN <<[settings |-> bracket_settings[1],
                    name |-> BracketName(Head(signs)),
                    ev_diff |-> base_ev - ev]>> \o rest
            ELSE rest

\* generate_brackets_by_ev
BracketsByEV(base_settings, ev_steps, num_brackets, priority) ==
    LET base_ev == CalculateEV(base_settings.iso, base_settings.aperture,
                               base_settings.shutter_speed)
    IN IF base_ev = <<>> THEN <<>>
       ELSE BracketsFor(EvValues(StartEV(base_ev[1], ev_steps, num_brackets),
                                 ev_steps, num_brackets),
                        EvDiffSigns(FloatOfBaseEV(base_settings),
                                    FloatOfStep(ev_steps), num_brackets),
                        base_ev[1], base_settings, priority)

GenerateBracketsByEV(base_settings, ev_steps, num_brackets, priority) ==
    /\ calc' = [op |-> "generate_brackets_by_ev",
                base_settings |-> base_settings,
                ev_steps |-> ev_steps,
                num_brackets |-> num_brackets,
                priority |-> priority,
                result |-> BracketsByEV(base_settings, ev_steps,
                                        num_brackets, priority)]
    /\ UNCHANGED <<active_captures, wk, cardImages, cmds, saved, stopPc,
                   stopId, stopRet, stopAt, failures, io, capture_threads,
                   startRet, getRet>>

\* the calls of adjust_exposure: every settings of the full-stop tables, and
\* the shutter strings calculate_ev cannot use
BadShutters == {"garbage", "1/0", "0"}

AdjustSettings ==
    [iso : {ISO_VALUES[i] : i \in DOMAIN ISO_VALUES},
     aperture : {APERTURE_VALUES[i] : i \in DOMAIN APERTURE_VALUES},
     shutter_speed : {SHUTTER_SPEEDS[i] : i \in DOMAIN SHUTTER_SPEEDS}
                        \cup BadShutters]

EvChanges == {-1000, 0, 1000}

AdjustedExposureAtBaseIso(settings, ev_change, priority) ==
    LET current_ev == CalculateEV(settings.iso, settings.aperture,
                                  settings.shutter_speed)
    IN IF current_ev = <<>> THEN <<>>
       ELSE SettingsForEV(current_ev[1] - ev_change, 100, priority,
                          settings.aperture)

\* adjust_exposure; None when calculate_ev returns None
AdjustedExposure(settings, ev_change, priority) ==
    LET current_ev == CalculateEV(settings.iso, settings.aperture,
                                  settings.shutter_speed)
    IN IF current_ev = <<>> THEN <<>>
       ELSE SettingsForEV(current_ev[1] - ev_change, settings.iso, priority,
                          settings.aperture)

AdjustExposure(settings, ev_change, priority) ==
    /\ calc' = [op |-> "adjust_exposure",
                settings |-> settings,
                ev_change |-> ev_change,
                priority |-> priority,
                current_ev |-> CalculateEV(settings.iso, settings.aperture,
                                           settings.shutter_speed),
                result |-> AdjustedExposure(settings, ev_change, priority)]
    /\ UNCHANGED <<active_captures, wk, cardImages, cmds, saved, stopPc,
                   stopId, stopRet, stopAt, failures, io, capture_threads,
                   startRet, getRet>>

\* the calls of generate_brackets_direct: lists of at most MaxDirect entries;
\* an entry has its fields on or off the third-stop tables, or lacks one
MaxDirect == 2

DirectIsos == {100, 110}

DirectApertures == {80, 85}

DirectShutters ==
    {"1/125", "1/100", "1/2", "1/90", "1/3", "0", "garbage", "1/0"}

DirectEntries ==
    [iso : DirectIsos, aperture : DirectApertures,
     shutter_speed : DirectShutters]
    \cup {[aperture |-> 80, shutter_speed |-> "1/125"],
          [iso |-> 100, aperture |-> 80]}

BracketsData ==
    UNION {[1..n -> DirectEntries] : n \in 0..MaxDirect}

\* min(table, key=lambda x: abs(x - v)) unless v is in the table
Validated(table, v) ==
    IF InTable(table, v) THEN v ELSE table[ClosestIndex(table, v)]

\* _find_closest_shutter_speed: the entry of SHUTTER_SPEEDS closest to seconds
ClosestShutterSpeed(seconds) ==
    IF seconds.sign <= 0 THEN SHUTTER_SPEEDS[Len(SHUTTER_SPEEDS)]
    ELSE SHUTTER_SPEEDS[1 + Cardinality({k \in DOMAIN Log2ShutterMidpoints :
                                Log2ShutterMidpoints[k] > seconds.log2})]

\* the shutter speed of a validated bracket, None when the bracket is dropped
ValidatedShutterAlways(shutter_speed) ==
    LET seconds == ShutterSeconds(shutter_speed)
    IN IF InTable(SHUTTER_SPEEDS_THIRD, shutter_speed) THEN <<shutter_speed>>
       ELSE IF seconds = <<>> THEN <<"1/125">>
       ELSE <<ClosestShutterSpeed(seconds[1])>>

ValidatedShutter(shutter_speed) ==
    LET seconds == ShutterSeconds(shutter_speed)
    IN IF InTable(SHUTTER_SPEEDS_THIRD, shutter_speed) THEN <<shutter_speed>>
       ELSE IF seconds = <<>> THEN <<>>
       ELSE <<ClosestShutterSpeed(seconds[1])>>

\* one pass of the loop over brackets_data: the bracket it appends, if any;
\* the dict returned is the one passed in, entry is its place in the input
ValidatedBracket(bracket, entry) ==
    IF ~ ({"iso", "aperture", "shutter_speed"} \subseteq DOMAIN bracket)
    THEN <<>>
    ELSE LET iso == Validated(ISO_VALUES_THIRD, bracket.iso)
             aperture == Validated(APERTURE_VALUES_THIRD, bracket.aperture)
             shutter_speed == ValidatedShutter(bracket.shutter_speed)
         IN IF shutter_speed = <<>> THEN <<>>
            ELSE <<[entry |-> entry, iso |-> iso, aperture |-> aperture,
                    shutter_speed |-> shutter_speed[1],
                    ev |-> CalculateEV(iso, aperture, shutter_speed[1])]>>

RECURSIVE ValidatedBrackets(_, _)
ValidatedBrackets(brackets_data, entry) ==
    IF entry > Len(brackets_data) THEN <<>>
    ELSE ValidatedBracket(brackets_data[entry], entry)
         \o ValidatedBrackets(brackets_data, entry + 1)

GenerateBracketsDirect(brackets_data) ==
    /\ calc' = [op |-> "generate_brackets_direct",
                brackets_data |-> brackets_data,
                result |-> ValidatedBrackets(brackets_data, 1)]
    /\ UNCHANGED <<active_captures, wk, cardImages, cmds, saved, stopPc,
                   stopId, stopRet, stopAt, failures, io, capture_threads,
                   startRet, getRet>>

\* ------------------------------------------------------------------ system
Worker(id) ==
    \/ \E emitOk \in BOOLEAN : W_Begin(id, emitOk)
    \/ \E outcome \in {"ok", "fail", "raise"}, emitOk \in BOOLEAN :
          W_StartSession(id, outcome, emitOk)
    \/ \E ok \in BOOLEAN : W_Watermark(id, ok)
    \/ W_Arm(id)
    \/ \E ok, emitOk \in BOOLEAN : W_Bracket(id, ok, emitOk)
    \/ \E emitOk \in BOOLEAN : W_BracketsDone(id, emitOk)
    \/ \E emitOk \in BOOLEAN : W_FrameTop(id, emitOk)
    \/ \E ok, emitOk \in BOOLEAN : W_Shot(id, ok, emitOk)
    \/ \E shotOk, moveOk, emitOk \in BOOLEAN :
          W_FocusPosition(id, shotOk, moveOk, emitOk)
    \/ \E ok, emitOk \in BOOLEAN : W_FocusReset(id, ok, emitOk)
    \/ \E ok \in BOOLEAN : W_DlSession(id, ok)
    \/ \E outcome \in {"ok", "zero", "raise"}, emitOk \in BOOLEAN :
          W_DlCount(id, outcome, emitOk)
    \/ \E ok \in BOOLEAN : W_Download(id, ok)
    \/ \E ok \in BOOLEAN : W_Save(id, ok)
    \/ \E emitOk \in BOOLEAN : W_Complete(id, emitOk)

\* the caller submits one plan
Submit == Registered = {} /\ \E plan \in Plans : StartCapture(plan)

\* one capture submitted; its worker and the stop requests interleave freely
Next ==
    \/ Submit
    \/ \E id \in SessionIds : Worker(id)
    \/ \E capture_id \in SessionIds : StopCheck(capture_id)
    \/ \E emitOk \in BOOLEAN : StopSet(emitOk)

Spec == Init /\ [][Next]_vars

\* the same system when no stop_capture request is ever made
NextUnstopped ==
    \/ Submit
    \/ \E id \in SessionIds : Worker(id)

\* the worker is a thread of its own: it keeps running while it has a step
FairSpec ==
    /\ Init
    /\ [][NextUnstopped]_vars
    /\ WF_vars(\E id \in SessionIds : Worker(id))

\* a plan is submitted whatever the captures already registered are doing
SubmitAny == Registered # SessionIds /\ \E plan \in ApiPlans : StartCapture(plan)

\* several captures, their workers and the request threads interleave
NextApi ==
    \/ SubmitAny
    \/ \E id \in SessionIds : Worker(id)
    \/ StopCheck(NewId(<<>>))
    \/ \E emitOk \in BOOLEAN : StopSet(emitOk)

ApiSpec == Init /\ [][NextApi]_vars

\* the caller submits one of the short plans
SubmitOne == Registered = {} /\ \E plan \in ApiPlans : StartCapture(plan)

\* one capture and its worker, polled by get_capture_status requests
NextStatus ==
    \/ SubmitOne
    \/ \E id \in SessionIds : Worker(id)
    \/ \E capture_id \in SessionIds : GetCaptureStatus(capture_id)

StatusSpec == Init /\ [][NextStatus]_vars

\* one call of the exposure calculator, which keeps no state between calls,
\* with every input of the sets above
NextCalc ==
    /\ calc.op = "none"
    /\ \/ \E base_settings \in BaseSettings, ev_steps \in EvSteps,
             num_brackets \in 1..MaxBrackets, priority \in Priorities :
              GenerateBracketsByEV(base_settings, ev_steps, num_brackets,
                                   priority)
       \/ \E settings \in AdjustSettings, ev_change \in EvChanges,
             priority \in Priorities :
              AdjustExposure(settings, ev_change, priority)
       \/ \E brackets_data \in BracketsData :
              GenerateBracketsDirect(brackets_data)

CalcSpec == Init /\ [][NextCalc]_vars

Statuses ==
    {"initializing", "running", "stopping", "stopped", "downloading",
     "completed", "error"}

ErrorKinds ==
    {"session", "settings", "shot", "focus", "dl_session", "download",
     "exception"}

WorkerPcs ==
    {"begin", "session", "watermark", "arm", "bracket", "frame", "shot",
     "focus", "reset", "dl_session", "dl_count", "download", "save",
     "complete", "done"}

\* the shape of the state: capture_info as built by start_capture, the
\* worker's locals, the request thread inside stop_capture
TypeOK ==
    /\ Registered \subseteq SessionIds
    /\ DOMAIN wk = Registered /\ DOMAIN cmds = Registered
    /\ DOMAIN io = Registered
    /\ DOMAIN saved = Registered /\ DOMAIN stopAt = Registered
    /\ \A id \in Registered :
          /\ active_captures[id].status \in Statuses
          /\ active_captures[id].data \in Plans
          /\ \A f \in DOMAIN active_captures[id].progress :
                active_captures[id].progress[f] \in Nat
          /\ \A i \in DOMAIN active_captures[id].errors :
                active_captures[id].errors[i] \in ErrorKinds
          /\ \A i \in DOMAIN active_captures[id].results :
                active_captures[id].results[i] \in 1..cardImages
          /\ active_captures[id].end_time \in {"none", "set"}
          /\ active_captures[id].images_before_capture \in -1..cardImages
          /\ wk[id].pc \in WorkerPcs
          /\ wk[id].bracket_idx \in 0..Len(active_captures[id].data.brackets)
          /\ wk[id].frame_idx \in Nat /\ wk[id].focus_idx \in Nat
          /\ wk[id].total_movement \in Int /\ wk[id].new_images \in Nat
          /\ wk[id].images_after \in Nat
          /\ \A i \in DOMAIN wk[id].focus_log :
                /\ wk[id].focus_log[i].kind \in
                      {"forward", "forward_failed", "reset", "center"}
                /\ wk[id].focus_log[i].value \in Int
          /\ \A i \in DOMAIN wk[id].frame_log :
                /\ wk[id].frame_log[i].cmd \in {"take_picture", "adjust_focus"}
                /\ wk[id].frame_log[i].value \in Int
          /\ \A k \in DOMAIN cmds[id] : cmds[id][k] \in Nat
          /\ \A k \in DOMAIN io[id] : io[id][k] \in Nat
          /\ Len(saved[id]) <= 1
          /\ stopAt[id] \in {"none", "frame", "between"}
    /\ cardImages \in Nat
    /\ stopPc \in {"idle", "set"}
    /\ stopId \in SessionIds
    /\ stopRet \in {"none", "true", "false"}
    /\ failures \in 0..MaxFailures
    /\ DOMAIN capture_threads = Registered
    /\ \A id \in Registered : capture_threads[id] = 1
    /\ startRet \in SessionIds \cup {"none"}
    /\ getRet = <<>> \/ (Len(getRet) = 2 /\ getRet[1] \in SessionIds)
    /\ calc.op \in {"none", "generate_brackets_by_ev", "adjust_exposure",
                  "generate_brackets_direct"}

\* -------------------------------------------------------------- properties
Status(id) == active_captures[id].status

Progress(id) == active_captures[id].progress

\* the worker of id takes this step
WorkerStep(id) == wk'[id] # wk[id]

\* the request thread takes this step inside stop_capture
StopStep == <<stopPc, stopId, stopRet>>' # <<stopPc, stopId, stopRet>>

StatusEdges ==
    {<<"initializing", "running">>, <<"running", "stopping">>,
     <<"stopping", "stopped">>, <<"running", "error">>,
     <<"running", "downloading">>, <<"downloading", "completed">>,
     <<"running", "completed">>}

\* C1: every change of a capture's status follows one of the edges
\* initializing->running, running->stopping, stopping->stopped,
\* running->error, running->downloading, downloading->completed,
\* running->completed; no other status transition occurs.
C1_StatusFollowsEdges ==
    [][\A id \in Registered :
          Status(id)' # Status(id) => <<Status(id), Status(id)'>> \in StatusEdges]_vars

\* C2: stop_capture returns True exactly when the capture exists and the
\* status it reads is running, and then sets the status to stopping and
\* nothing else; for an unknown id or any other status it returns False and
\* leaves every capture record and the registry unchanged.
C2_StopContract ==
    [][StopStep =>
         IF stopPc = "idle"
         THEN /\ UNCHANGED <<active_captures, wk, cmds, saved, cardImages>>
              /\ IF stopId' \in Registered /\ Status(stopId') = "running"
                 THEN stopPc' = "set" /\ stopRet' # "false"
                 ELSE stopPc' = "idle" /\ stopRet' = "false"
         ELSE /\ stopRet' = "true"
              /\ stopPc' = "idle"
              /\ stopId \in Registered
              /\ active_captures' =
                    [active_captures EXCEPT ![stopId].status = "stopping"]
              /\ UNCHANGED <<wk, cmds, saved, cardImages>>]_vars

C2_Witness ==
    /\ stopRet = "true"
    /\ stopId \in Registered
    /\ Status(stopId) = "stopping"

\* C3: a stop_capture that returns True while a frame of a bracket is in
\* progress makes the capture end in status stopped.
C3_StopMidBracketEndsStopped ==
    \A id \in Registered :
        (wk[id].pc = "done" /\ stopAt[id] = "frame") => Status(id) = "stopped"

\* C4: the stopping->stopped transition changes only the status: progress,
\* results and errors keep their values, and the worker issues no device
\* command in that step or after it.
C4_StoppedChangesOnlyStatus ==
    [][\A id \in Registered :
          /\ (Status(id) # "stopped" /\ Status(id)' = "stopped") =>
                /\ Status(id) = "stopping"
                /\ active_captures'[id] =
                      [active_captures[id] EXCEPT !.status = "stopped"]
                /\ cmds'[id] = cmds[id]
                /\ wk'[id].pc = "done"
          /\ Status(id) = "stopped" =>
                /\ cmds'[id] = cmds[id]
                /\ wk'[id] = wk[id]]_vars

C4_Witness ==
    \E id \in Registered :
        /\ Status(id) = "stopped"
        /\ Progress(id).completed_frames > 0
        /\ Progress(id).failed_frames > 0
        /\ cmds[id].shot > 1

\* C5: once a capture's status is completed, error or stopped, its record
\* stays in the registry and no later step changes its status, progress,
\* results or errors.
C5_TerminalRecordFrozen ==
    [][\A id \in Registered :
          Status(id) \in Terminal =>
              /\ id \in Registered'
              /\ active_captures'[id] = active_captures[id]]_vars

\* C6: when applySettings is rejected the worker retries once with the
\* fallback triple before it decides to skip the bracket, so a bracket is
\* given up only after two applySettings commands.
C6_FallbackRetriedBeforeSkip ==
    [][\A id \in Registered :
          (WorkerStep(id) /\ Len(active_captures'[id].errors) >
                                Len(active_captures[id].errors)
                          /\ wk[id].pc = "bracket")
          => cmds'[id].apply = cmds[id].apply + 2]_vars

\* the worker of id handles a rejected applySettings in this step
SettingsFailStep(id) ==
    /\ WorkerStep(id)
    /\ cmds'[id].apply = cmds[id].apply + 1
    /\ wk'[id].pc # "frame"

OnlySettingsFailed(id) ==
    /\ active_captures[id].errors # <<>>
    /\ \A i \in DOMAIN active_captures[id].errors :
          active_captures[id].errors[i] = "settings"
    /\ failures = Len(active_captures[id].errors)

\* C7: when a bracket's settings cannot be applied the worker appends an
\* error, takes no exposure and issues no focus move for that bracket and
\* goes on to the next bracket; the status is not changed by it, and a
\* capture whose only failures are rejected settings (and that was not
\* stopped) ends completed.
C7_SettingsFailureSkipsBracket ==
    /\ [][\A id \in Registered :
            SettingsFailStep(id) =>
               /\ active_captures'[id].errors =
                     Append(active_captures[id].errors, "settings")
               /\ Status(id)' = Status(id)
               /\ Status(id)' # "error"
               /\ cmds'[id].shot = cmds[id].shot
               /\ cmds'[id].focus = cmds[id].focus
               /\ wk'[id].pc = "bracket"
               /\ wk'[id].bracket_idx = wk[id].bracket_idx + 1
               /\ Progress(id)'.completed_frames = Progress(id).completed_frames
               /\ Progress(id)'.failed_frames = Progress(id).failed_frames]_vars
    /\ [](\A id \in Registered :
            (wk[id].pc = "done" /\ OnlySettingsFailed(id)
               /\ stopAt[id] = "none")
            => Status(id) = "completed")

C7_Witness ==
    \E id \in Registered :
        /\ wk[id].pc = "done"
        /\ OnlySettingsFailed(id)
        /\ Len(active_captures[id].errors) = 1
        /\ Status(id) = "completed"
        /\ Progress(id).current_bracket = 2
        /\ Progress(id).completed_frames > 0

\* C8: with focus stacking disabled each frame issues exactly one
\* takePicture; a success adds one to completed_frames and leaves
\* failed_frames and errors alone, a failure adds one to failed_frames,
\* appends one error and leaves completed_frames alone; either way the
\* worker goes on to the next frame and the status is not changed.
C8_OneShotPerFrame ==
    [][\A id \in Registered :
          (WorkerStep(id) /\ ~FocusStack(id).enabled) =>
             /\ (wk[id].pc = "frame" /\ wk'[id].pc # "done") =>
                    /\ cmds'[id] = cmds[id]
                    /\ wk'[id].pc \in {"shot", "bracket"}
             /\ wk[id].pc = "shot" =>
                    /\ cmds'[id] = [cmds[id] EXCEPT !.shot = @ + 1]
                    /\ wk'[id].pc = "frame"
                    /\ wk'[id].frame_idx = wk[id].frame_idx + 1
                    /\ Status(id)' = Status(id)
                    /\ Status(id) \in {"running", "stopping"}
                    /\ \/ /\ Progress(id)' =
                               [Progress(id) EXCEPT !.completed_frames = @ + 1]
                          /\ active_captures'[id].errors =
                               active_captures[id].errors
                       \/ /\ Progress(id)' =
                               [Progress(id) EXCEPT !.failed_frames = @ + 1]
                          /\ active_captures'[id].errors =
                               Append(active_captures[id].errors, "shot")]_vars

C8_Witness ==
    \E id \in Registered :
        /\ ~FocusStack(id).enabled
        /\ Status(id) = "running"
        /\ wk[id].pc = "frame"
        /\ Progress(id).completed_frames = 1
        /\ Progress(id).failed_frames = 1
        /\ active_captures[id].errors = <<"shot">>

RECURSIVE PlannedFrames(_)
PlannedFrames(brackets) ==
    IF brackets = <<>> THEN 0
    ELSE brackets[1].frames + PlannedFrames(SubSeq(brackets, 2, Len(brackets)))

CleanStandardRun(id) ==
    /\ Status(id) = "completed"
    /\ active_captures[id].errors = <<>>
    /\ Progress(id).failed_frames = 0
    /\ Progress(id).completed_frames = Progress(id).total_frames
    /\ Progress(id).total_frames = PlannedFrames(Brackets(id))

\* C9: a standard-mode plan without focus stacking, every device operation
\* succeeding and no stop requested, eventually reaches status completed
\* with no errors, failed_frames = 0 and completed_frames = total_frames =
\* the sum of the brackets' frames.
C9_CleanStandardRunCompletes ==
    ("id1" \in Registered /\ ~FastMode("id1") /\ ~FocusStack("id1").enabled)
    ~> ("id1" \in Registered /\
          (failures > 0 \/ stopAt["id1"] # "none" \/ CleanStandardRun("id1")))

C9_Witness ==
    /\ "id1" \in Registered
    /\ ~FastMode("id1")
    /\ ~FocusStack("id1").enabled
    /\ failures = 0
    /\ stopAt["id1"] = "none"
    /\ CleanStandardRun("id1")
    /\ Len(Brackets("id1")) = 1
    /\ Progress("id1").completed_frames = 3

\* C10: start_capture stores total_frames = the sum of the brackets' frames
\* when focus stacking is disabled and the sum of frames x (steps + 1) when
\* it is enabled; total_brackets is the number of brackets; neither changes
\* afterwards.
C10_FrameCountLaw ==
    /\ [](\A id \in Registered :
            LET data == active_captures[id].data
                perFrame == IF data.focus_stack.enabled
                            THEN data.focus_stack.steps + 1 ELSE 1
            IN /\ Progress(id).total_frames =
                     PlannedFrames(data.brackets) * perFrame
               /\ Progress(id).total_brackets = Len(data.brackets))
    /\ [][\A id \in Registered :
            /\ Progress(id)'.total_frames = Progress(id).total_frames
            /\ Progress(id)'.total_brackets = Progress(id).total_brackets
            /\ active_captures'[id].data = active_captures[id].data]_vars

C10_Witness ==
    \E id \in Registered :
        /\ FocusStack(id).enabled
        /\ FocusStack(id).steps = 2
        /\ Len(Brackets(id)) = 1
        /\ Progress(id).total_frames = 3
        /\ Status(id) = "completed"

\* a start_capture call returns in this step
StartStep == Registered' # Registered

\* C11: start_capture always allocates an id not yet in the registry,
\* registers the record with status initializing, zeroed current_bracket,
\* current_frame, completed_frames and failed_frames and empty results and
\* errors, starts exactly one worker thread for it and returns the id with
\* no device operation issued; it is accepted whatever the statuses of the
\* captures already registered are, and it changes none of their records.
C11_StartRegistersFreshCapture ==
    /\ [][StartStep =>
            \E capture_id \in SessionIds \ Registered :
               /\ Registered' = Registered \cup {capture_id}
               /\ startRet' = capture_id
               /\ Status(capture_id)' = "initializing"
               /\ Progress(capture_id)'.current_bracket = 0
               /\ Progress(capture_id)'.current_frame = 0
               /\ Progress(capture_id)'.completed_frames = 0
               /\ Progress(capture_id)'.failed_frames = 0
               /\ active_captures'[capture_id].results = <<>>
               /\ active_captures'[capture_id].errors = <<>>
               /\ DOMAIN capture_threads' = Registered'
               /\ capture_threads'[capture_id] = 1
               /\ DOMAIN wk' = Registered'
               /\ wk'[capture_id].pc = "begin"
               /\ cmds'[capture_id] = NoCmds
               /\ UNCHANGED <<cardImages, failures>>
               /\ \A id \in Registered :
                     /\ active_captures'[id] = active_captures[id]
                     /\ wk'[id] = wk[id]
                     /\ cmds'[id] = cmds[id]
                     /\ saved'[id] = saved[id]
                     /\ capture_threads'[id] = capture_threads[id]]_vars
    /\ [](Registered # SessionIds => ENABLED SubmitAny)

C11_Witness ==
    /\ Registered = SessionIds
    /\ startRet = "id2"
    /\ Status("id2") = "initializing"
    /\ Status("id1") = "running"
    /\ wk["id1"].pc \in FrameBody
    /\ Progress("id1").current_frame = 1

\* the counters of a capture no frame of which was attempted
NoProgress(id) ==
    /\ Progress(id).current_bracket = 0
    /\ Progress(id).current_frame = 0
    /\ Progress(id).completed_frames = 0
    /\ Progress(id).failed_frames = 0

\* the only device command issued for id is the one session start
OnlySessionStartIssued(id) == cmds[id] = [NoCmds EXCEPT !.session = 1]

\* C12: when the fresh device session cannot be established at the start
\* of the worker, the status becomes error with one error appended, and the
\* worker has issued no applySettings, takePicture, adjustFocus, count or
\* download command and has incremented no progress counter - in that step
\* and ever after.
C12_SessionStartFailure ==
    /\ [][\A id \in Registered :
            (WorkerStep(id) /\ wk[id].pc = "session"
               /\ cmds'[id].session = cmds[id].session + 1
               /\ wk'[id].pc = "done")
            => /\ Status(id)' = "error"
               /\ active_captures'[id].errors = <<"session">>
               /\ NoProgress(id)'
               /\ OnlySessionStartIssued(id)']_vars
    /\ [](\A id \in Registered :
            (wk[id].pc = "done" /\ active_captures[id].errors = <<"session">>)
            => /\ NoProgress(id)
               /\ OnlySessionStartIssued(id)
               /\ active_captures[id].results = <<>>)

C12_Witness ==
    \E id \in Registered :
        /\ wk[id].pc = "done"
        /\ Status(id) = "error"
        /\ active_captures[id].errors = <<"session">>
        /\ Len(Brackets(id)) = 2
        /\ Progress(id).total_frames = 3

\* the worker of id runs into its except clause in this step
ExceptionStep(id) ==
    /\ WorkerStep(id)
    /\ Len(active_captures'[id].errors) = Len(active_captures[id].errors) + 1
    /\ active_captures'[id].errors[Len(active_captures'[id].errors)] =
          "exception"

\* C13: an unexpected exception in a step of the worker is caught inside
\* the worker: exactly one message is appended to errors, the status
\* becomes error, the end time is set and the worker returns; nothing else
\* of the record changes.
C13_ExceptionsCaught ==
    [][\A id \in Registered :
          ExceptionStep(id) =>
             /\ active_captures'[id] =
                   [active_captures[id] EXCEPT
                       !.errors = Append(@, "exception"),
                       !.status = "error",
                       !.end_time = "set"]
             /\ wk'[id].pc = "done"]_vars

C13_Witness ==
    \E id \in Registered :
        /\ wk[id].pc = "done"
        /\ Status(id) = "error"
        /\ active_captures[id].end_time = "set"
        /\ active_captures[id].errors = <<"exception">>
        /\ Progress(id).completed_frames = 2
        /\ cmds[id].count = 2

\* the watermark stored before the first exposure
Watermark(id) == active_captures[id].images_before_capture

\* C14: in fast mode new_images is the image count read in the downloading
\* phase minus the watermark stored before the first exposure; when it is
\* <= 0 the worker issues no download and sets the status to completed;
\* when it is > 0 the worker issues exactly one download, with max_images =
\* new_images, and the files it returns become the capture's results.
C14_DownloadsNewImages ==
    /\ [][\A id \in Registered :
            /\ (WorkerStep(id) /\ wk[id].pc = "watermark") =>
                   /\ cmds[id].shot = 0
                   /\ Watermark(id)' \in {cardImages, 0}
            /\ (WorkerStep(id) /\ wk[id].pc = "dl_count"
                   /\ ~ExceptionStep(id)) =>
                   LET n == wk'[id].images_after - Watermark(id)
                   IN /\ Status(id) \in {"downloading", "stopping"}
                      /\ wk'[id].images_after \in {cardImages, 0}
                      /\ Watermark(id)' = Watermark(id)
                      /\ cmds'[id].download = 0
                      /\ n <= 0 => /\ Status(id)' = "completed"
                                   /\ wk'[id].pc = "done"
                      /\ n > 0 => /\ wk'[id].pc = "download"
                                  /\ wk'[id].new_images = n
                                  /\ Status(id)' = Status(id)
            /\ (WorkerStep(id) /\ wk[id].pc = "download") =>
                   LET n == wk[id].images_after - Watermark(id)
                       k == IF n < cardImages THEN n ELSE cardImages
                   IN /\ n > 0
                      /\ cmds'[id].download = 1
                      /\ cmds'[id].max_images = n
                      /\ \/ /\ Len(active_captures'[id].results) = k
                            /\ \A i \in 1..k :
                                  active_captures'[id].results[i] =
                                      cardImages + 1 - i
                            /\ active_captures'[id].errors =
                                  active_captures[id].errors
                         \/ /\ active_captures'[id].results = <<>>
                            /\ active_captures'[id].errors =
                                  Append(active_captures[id].errors,
                                         "download")]_vars
    /\ [](\A id \in Registered :
            /\ cmds[id].download <= 1
            /\ (wk[id].pc = "done" /\ cmds[id].download = 0)
                  => active_captures[id].results = <<>>
            /\ cmds[id].download = 1 => FastMode(id))

C14_Witness ==
    \E id \in Registered :
        /\ FastMode(id)
        /\ Status(id) = "completed"
        /\ Watermark(id) = 1
        /\ wk[id].images_after = 3
        /\ cmds[id].download = 1
        /\ cmds[id].max_images = 2
        /\ active_captures[id].results = <<3, 2>>

\* worker positions of the fast-mode download phase
DownloadPhase == {"dl_session", "dl_count", "download"}

\* C15: in fast mode, once the worker is in the download phase, a failure
\* to re-establish the session, to count the images or to transfer them
\* never moves the capture to status error.
C15_ReconciliationNeverErrors ==
    [][\A id \in Registered :
          (WorkerStep(id) /\ wk[id].pc \in DownloadPhase)
          => Status(id)' # "error"]_vars

\* C16: a capture whose status is completed has had its summary record
\* written to the save directory, on every path to completed - also on the
\* fast-mode path with no new images, where no device operation failed.
C16_SummarySavedBeforeCompleted ==
    \A id \in Registered :
        (Status(id) = "completed" /\ failures = 0) => Len(saved[id]) >= 1

\* progress of id is written in this step by nobody but id's own worker
WrittenByOwnWorker(id) ==
    Progress(id)' # Progress(id) =>
        /\ WorkerStep(id)
        /\ ~StopStep
        /\ \A other \in Registered \ {id} :
              /\ wk'[other] = wk[other]
              /\ Progress(other)' = Progress(other)

RECURSIVE SumApplied(_)
SumApplied(log) ==
    IF log = <<>> THEN 0
    ELSE (IF Head(log).kind = "forward" THEN Head(log).value ELSE 0)
         + SumApplied(Tail(log))

\* C18: in every frame of a focus stack the compensating focus move has the
\* value minus the sum of the forward moves that succeeded in that frame:
\* total_movement counts the applied moves, not the planned ones, and
\* starts from zero in each frame.
C18_CompensationNegatesAppliedMoves ==
    \A id \in Registered :
        LET log == wk[id].focus_log
        IN /\ wk[id].total_movement = SumApplied(log)
           /\ \A i \in DOMAIN log :
                 log[i].kind = "reset" =>
                    /\ log[i].value = -SumApplied(SubSeq(log, 1, i - 1))
                    /\ \A j \in DOMAIN log :
                          log[j].kind \in {"forward", "forward_failed"}
                             => j < i

C18_Witness ==
    \E id \in Registered :
        /\ FocusStack(id).steps = 3
        /\ wk[id].focus_log =
              <<FocusCmd("forward", 2), FocusCmd("forward_failed", 2),
                FocusCmd("reset", -2), FocusCmd("center", 0)>>

\* C19: get_capture_status can be called at any time, whatever the worker
\* is doing, and changes no state; for an id in the registry it returns
\* that capture's current record, for any other id it returns the value
\* {'error': 'Capture not found'}.
C19_GetStatusReadsOnly ==
    /\ [][getRet' # getRet =>
            /\ UNCHANGED <<active_captures, wk, cardImages, cmds, saved,
                           stopPc, stopId, stopRet, stopAt, failures, io,
                           capture_threads, startRet, calc>>
            /\ Len(getRet') = 2
            /\ getRet'[1] \in Registered =>
                  getRet'[2] = active_captures[getRet'[1]]
            /\ getRet'[1] \notin Registered =>
                  getRet'[2] = [error |-> "Capture not found"]]_vars
    /\ [](\A capture_id \in SessionIds : ENABLED GetCaptureStatus(capture_id))

C19_Witness ==
    /\ Len(getRet) = 2
    /\ getRet[1] = "id2"
    /\ getRet[2] = [error |-> "Capture not found"]
    /\ "id1" \in Registered
    /\ Status("id1") = "running"
    /\ Progress("id1").completed_frames = 1

\* the base EV of the generate_brackets_by_ev call held in calc
CalcBaseEV ==
    CalculateEV(calc.base_settings.iso, calc.base_settings.aperture,
                calc.base_settings.shutter_speed)

\* the EV values of the entries returned are strictly decreasing in list
\* order, consecutive entries ev_steps apart (ev_diff = base EV - EV)
EvsDescendByStep ==
    \A j \in 1..(Len(calc.result) - 1) :
        calc.result[j + 1].ev_diff = calc.result[j].ev_diff + calc.ev_steps

ScenarioB ==
    /\ calc.op = "generate_brackets_by_ev"
    /\ calc.base_settings = [iso |-> 100, aperture |-> 80,
                             shutter_speed |-> "1/125"]
    /\ calc.ev_steps = 1000 /\ calc.num_brackets = 3
    /\ calc.priority = "shutter"

\* the entries are in order of strictly decreasing EV
EvStrictlyDecreasing ==
    \A k \in 1..(Len(calc.result) - 1) :
        calc.result[k].ev_diff < calc.result[k + 1].ev_diff

DirectCall == calc.op = "generate_brackets_direct"

\* the strings of the calls that read as a fraction N/D with D not zero, or
\* as a decimal number
FractionsAndDecimals == {"1/125", "1/100", "1/2", "1/90", "1/3", "0"}

\* the entry has its three fields and a shutter speed that is in the
\* third-stop table or reads as a fraction or a decimal
Acceptable(bracket) ==
    /\ {"iso", "aperture", "shutter_speed"} \subseteq DOMAIN bracket
    /\ \/ InTable(SHUTTER_SPEEDS_THIRD, bracket.shutter_speed)
       \/ bracket.shutter_speed \in FractionsAndDecimals

\* C22: generateBracketsDirect returns, in input order, exactly the input
\* entries that have iso, aperture and shutter_speed and whose shutter speed
\* is in the third-stop table or parses as a fraction or a decimal; the
\* others are dropped and no exception is raised, so a single entry with
\* shutter "garbage" yields the empty list.
C22_DirectKeepsAcceptableEntries ==
    DirectCall =>
        LET kept == {i \in DOMAIN calc.brackets_data :
                        Acceptable(calc.brackets_data[i])}
        IN /\ Len(calc.result) = Cardinality(kept)
           /\ \A k \in DOMAIN calc.result : calc.result[k].entry \in kept
           /\ \A k \in 1..(Len(calc.result) - 1) :
                 calc.result[k].entry < calc.result[k + 1].entry
           /\ (calc.brackets_data
                  = <<[iso |-> 100, aperture |-> 80,
                       shutter_speed |-> "garbage"]>>
                 => calc.result = <<>>)

C22_Witness ==
    /\ DirectCall
    /\ Len(calc.brackets_data) = 2
    /\ calc.brackets_data[1] = [iso |-> 100, aperture |-> 80,
                                shutter_speed |-> "garbage"]
    /\ calc.brackets_data[2] = [iso |-> 100, aperture |-> 80,
                                shutter_speed |-> "1/90"]
    /\ Len(calc.result) = 1
    /\ calc.result[1].entry = 2

\* x is an entry of the table, and no entry is closer to v
NearestEntry(table, x, v) ==
    /\ InTable(table, x)
    /\ \A j \in DOMAIN table : Abs(x - v) <= Abs(table[j] - v)

\* the entry of SHUTTER_SPEEDS_THIRD closest to a time in seconds
NearestThirdStopShutter(seconds) ==
    IF seconds.sign <= 0 THEN SHUTTER_SPEEDS_THIRD[Len(SHUTTER_SPEEDS_THIRD)]
    ELSE SHUTTER_SPEEDS_THIRD[
             1 + Cardinality({k \in DOMAIN Log2ShutterThirdMidpoints :
                                 Log2ShutterThirdMidpoints[k] > seconds.log2})]

\* C23: for every entry accepted by generateBracketsDirect, each of iso,
\* aperture and shutter speed that is a third-stop table entry is left
\* unchanged and each one that is not is replaced by the nearest entry of the
\* third-stop table; every output field is in its third-stop table.
C23_DirectSnapsToThirdStops ==
    DirectCall =>
        \A k \in DOMAIN calc.result :
            LET bracket == calc.brackets_data[calc.result[k].entry]
                out == calc.result[k]
            IN /\ NearestEntry(ISO_VALUES_THIRD, out.iso, bracket.iso)
               /\ NearestEntry(APERTURE_VALUES_THIRD, out.aperture,
                               bracket.aperture)
               /\ InTable(SHUTTER_SPEEDS_THIRD, out.shutter_speed)
               /\ out.shutter_speed
                     = IF InTable(SHUTTER_SPEEDS_THIRD, bracket.shutter_speed)
                       THEN bracket.shutter_speed
                       ELSE NearestThirdStopShutter(
                                ShutterSeconds(bracket.shutter_speed)[1])

\* calculate_ev of settings drawn from the tables, then get_settings_for_ev
\* of that EV with the same iso and aperture: adjust_exposure by 0 EV
RoundTrip(priority) ==
    /\ calc.op = "adjust_exposure"
    /\ calc.ev_change = 0
    /\ calc.priority = priority
    /\ InTable(SHUTTER_SPEEDS, calc.settings.shutter_speed)

C25_ParseFailureIsAValue ==
    /\ (calc.op = "adjust_exposure"
          /\ calc.settings.shutter_speed \in {"garbage", "1/0", "0"})
       => /\ calc.current_ev = <<>>
          /\ calc.result = <<>>
    /\ (calc.op = "generate_brackets_by_ev"
          /\ calc.base_settings.shutter_speed \in {"garbage", "1/0", "0"})
       => /\ CalcBaseEV = <<>>
          /\ calc.result = <<>>

C25_Witness ==
    /\ calc.op = "adjust_exposure"
    /\ calc.settings.shutter_speed = "0"
    /\ calc.ev_change = 1000
    /\ calc.current_ev = <<>>
    /\ calc.result = <<>>

\* the worker thread of id has returned from _execute_capture_sequence
WorkerFinished(id) == wk[id].pc = "done"

\* C26: once a worker has terminated the status of its capture is one of
\* completed, error, stopped: no interleaving of stop_capture's test and
\* write of the status with the worker's own writes leaves a finished
\* capture in stopping, running or downloading.
C26_FinishedWorkerIsTerminal ==
    \A id \in Registered : WorkerFinished(id) => Status(id) \in Terminal

\* the step issues an exposure or a focus move for the capture id
ExposesOrMoves(id) ==
    \/ cmds'[id].shot # cmds[id].shot
    \/ cmds'[id].focus # cmds[id].focus

\* C27: the worker reads the stopping flag only at the top of a frame
\* iteration.  While the status is stopping, the frame in progress runs on
\* (its next exposure is taken and the status is left alone), the worker at
\* the top of a frame iteration begins no frame, and every exposure and focus
\* move issued belongs to a frame already in progress; the status becomes
\* stopped only at the top of a frame iteration.
C27_StopSeenOnlyAtFrameTop ==
    [][\A id \in Registered :
          /\ (Status(id) = "stopping" /\ id \in Registered') =>
                /\ (wk[id].pc = "frame" => wk'[id].pc \notin FrameBody)
                /\ (ExposesOrMoves(id) => wk[id].pc \in FrameBody)
                /\ (WorkerStep(id) /\ wk[id].pc \in FrameBody) =>
                      /\ cmds'[id].shot = cmds[id].shot + 1
                      /\ Status(id)' = "stopping"
                      /\ wk'[id].pc \in FrameBody \cup {"frame"}
          /\ (id \in Registered' /\ Status(id)' = "stopped"
                /\ Status(id) # "stopped") =>
                /\ wk[id].pc = "frame"
                /\ Status(id) = "stopping"
                /\ ~ ExposesOrMoves(id)]_vars

\* a stop arrived during a frame, that frame's exposure was taken, and the
\* worker stopped at the top of the next frame with frames left to take
C27_Witness ==
    \E id \in Registered :
        /\ Status(id) = "stopped"
        /\ WorkerFinished(id)
        /\ stopAt[id] = "frame"
        /\ cmds[id].shot = 1
        /\ CalculateTotalFrames(active_captures[id].data) >= 2
        /\ Progress(id).completed_frames + Progress(id).failed_frames = 1

\* C28: for each bracket the worker calls applySettings at most twice, and
\* never again for that bracket, its frames included: a step issues at most
\* two applySettings commands, only at the top of the bracket loop as it
\* enters a bracket it had not entered, and never from inside the frame loop.
C28_SettingsAppliedAtMostTwicePerBracket ==
    [][\A id \in Registered :
          (id \in Registered' /\ cmds'[id].apply # cmds[id].apply) =>
              /\ cmds'[id].apply - cmds[id].apply \in 1..2
              /\ wk[id].pc = "bracket"
              /\ Progress(id)'.current_bracket = wk[id].bracket_idx + 1
              /\ Progress(id)'.current_bracket > Progress(id).current_bracket
              /\ cmds'[id].apply <= 2 * Progress(id)'.current_bracket]_vars

\* a bracket of two frames, both taken, after one applySettings command
C28_Witness ==
    \E id \in Registered :
        /\ ~ FocusStack(id).enabled
        /\ Progress(id).current_bracket = 1
        /\ Progress(id).current_frame = 2
        /\ cmds[id].shot = 2
        /\ cmds[id].apply = 1

\* the capture runs a focus stack of at least two positions with a positive
\* step size, and no focus move of the current frame has failed
CleanStack(id) ==
    /\ FocusStack(id).enabled
    /\ FocusStack(id).steps >= 2
    /\ FocusStack(id).step_size > 0
    /\ \A i \in DOMAIN wk[id].focus_log :
          wk[id].focus_log[i].kind # "forward_failed"

\* the i-th device command of a frame of a stack of that many positions:
\* exposures and forward moves in turn, the compensating move, the
\* reset-position exposure, the centering move
StackCommand(log, i, steps) ==
    IF i <= 2 * steps - 1
    THEN IF i % 2 = 1
         THEN log[i].cmd = "take_picture"
         ELSE /\ log[i].cmd = "adjust_focus"
              /\ log[i].value # 0
              /\ log[i].value = log[2].value
    ELSE IF i = 2 * steps
    THEN /\ log[i].cmd = "adjust_focus"
         /\ log[i].value = -((steps - 1) * log[2].value)
    ELSE IF i = 2 * steps + 1
    THEN log[i].cmd = "take_picture"
    ELSE /\ i = 2 * steps + 2
         /\ log[i] = [cmd |-> "adjust_focus", value |-> 0]

\* C29: with focus stacking enabled, steps >= 2, stepSize > 0 and every
\* focus move succeeding, a frame issues exactly: an exposure at each of the
\* steps positions with one forward move between consecutive positions, one
\* compensating move, one reset-position exposure, one centering move of
\* step 0; the frame adds steps + 1 to completedFrames + failedFrames.
C29_StackCommandSequence ==
    \A id \in Registered :
        CleanStack(id) =>
            LET log == wk[id].frame_log
                steps == FocusStack(id).steps
            IN /\ \A i \in DOMAIN log : StackCommand(log, i, steps)
               /\ (wk[id].pc \notin {"focus", "reset"} /\ log # <<>>) =>
                     /\ Len(log) = 2 * steps + 2
                     /\ Cardinality({i \in DOMAIN log :
                                        log[i].cmd = "take_picture"})
                           = steps + 1
               /\ Progress(id).completed_frames + Progress(id).failed_frames
                     = cmds[id].shot

C29_Witness ==
    \E id \in Registered :
        /\ CleanStack(id)
        /\ FocusStack(id).steps = 3
        /\ wk[id].pc = "frame"
        /\ Len(wk[id].frame_log) = 8
        /\ wk[id].frame_log[6] = [cmd |-> "adjust_focus", value |-> -4]
        /\ Progress(id).completed_frames + Progress(id).failed_frames = 4

\* the forward moves of the current frame, failed ones included
ForwardMoves(id) ==
    {wk[id].focus_log[i].value :
        i \in {j \in DOMAIN wk[id].focus_log :
                  wk[id].focus_log[j].kind \in {"forward", "forward_failed"}}}

\* C30: every forward focus move of a stack with stepSize > 0 is sent with
\* the value +speed when direction = near and -speed when direction = far,
\* whatever the magnitude of stepSize.
C30_ForwardMoveIsSignedSpeed ==
    \A id \in Registered :
        (FocusStack(id).enabled /\ FocusStack(id).step_size > 0) =>
            ForwardMoves(id) \subseteq
                {IF FocusStack(id).direction = "near"
                 THEN FocusStack(id).speed ELSE -FocusStack(id).speed}

\* a stack of step size 3 and speed 2 towards far focus has sent +2
C30_Witness ==
    \E id \in Registered :
        /\ FocusStack(id).enabled
        /\ FocusStack(id).step_size = 3
        /\ FocusStack(id).speed = 2
        /\ FocusStack(id).direction = "near"
        /\ ForwardMoves(id) = {2}
        /\ wk[id].pc = "reset"

\* the forward moves the worker has sent in the current frame
ForwardSent(id) ==
    {i \in DOMAIN wk[id].focus_log :
        wk[id].focus_log[i].kind \in {"forward", "forward_failed"}}

\* a forward move of the current frame has failed
MoveFailed(id) ==
    \E i \in DOMAIN wk[id].focus_log :
        wk[id].focus_log[i].kind = "forward_failed"

Exposures(log) == {i \in DOMAIN log : log[i].cmd = "take_picture"}

\* C31: when the forward move after the exposure at position k < steps
\* fails, one error is appended, the status is left alone and the worker goes
\* to the end of the stack: no further position is exposed and no further
\* forward move is sent in that frame, the reset-position exposure is taken
\* (k + 1 exposures in the frame), and the worker goes on to the next frame.
C31_FailedMoveAbandonsStack ==
    /\ [](\A id \in Registered :
            MoveFailed(id) =>
               LET k == Cardinality(ForwardSent(id))
                   log == wk[id].frame_log
               IN /\ k < FocusStack(id).steps
                  /\ wk[id].focus_log[k].kind = "forward_failed"
                  /\ \A i \in 1..(k - 1) : wk[id].focus_log[i].kind = "forward"
                  /\ wk[id].pc # "focus"
                  /\ wk[id].pc = "reset" => Cardinality(Exposures(log)) = k
                  /\ wk[id].pc # "reset" =>
                        /\ Cardinality(Exposures(log)) = k + 1
                        /\ log[Len(log) - 1] = TakePicture)
    /\ [][\A id \in Registered :
            (id \in Registered' /\ ~ MoveFailed(id) /\ MoveFailed(id)') =>
                /\ Status(id)' = Status(id)
                /\ wk'[id].pc = "reset"
                /\ Len(active_captures'[id].errors)
                      = Len(active_captures[id].errors)
                        + (Progress(id)'.failed_frames
                           - Progress(id).failed_frames) + 1
                /\ active_captures'[id].errors[Len(active_captures'[id].errors)]
                      = "focus"]_vars
    /\ [][\A id \in Registered :
            (id \in Registered' /\ MoveFailed(id) /\ WorkerStep(id)
               /\ wk[id].pc = "reset") =>
                /\ Status(id)' = Status(id)
                /\ cmds'[id].shot = cmds[id].shot + 1
                /\ wk'[id].pc = "frame"
                /\ wk'[id].frame_idx = wk[id].frame_idx + 1]_vars

\* the second forward move of a stack of three positions failed; the frame
\* ended with the compensating move for the first, the reset-position
\* exposure and the centering move, and the next frame has begun
C31_Witness ==
    \E id \in Registered :
        /\ FocusStack(id).steps = 3
        /\ wk[id].frame_idx = 1
        /\ wk[id].pc = "frame"
        /\ MoveFailed(id)
        /\ wk[id].frame_log =
              <<TakePicture, AdjustFocus(2), TakePicture, AdjustFocus(2),
                AdjustFocus(-2), TakePicture, AdjustFocus(0)>>
        /\ Status(id) = "running"

\* CameraInterface.adjust_focus: the drive command the gateway sends for a
\* step value: focus_far for a positive value, focus_near otherwise, at
\* speed min(3, abs(step_value))
AppliedFocusMove(step_value) ==
    [drive |-> IF step_value > 0 THEN "focus_far" ELSE "focus_near",
     speed |-> IF Abs(step_value) < 3 THEN Abs(step_value) ELSE 3]

\* C32: every adjustFocus command the worker sends carries a step whose
\* magnitude is a speed from 1 to 3, so the gateway's drive command has the
\* magnitude requested.
C32_FocusStepIsASpeed ==
    \A id \in Registered :
        \A i \in DOMAIN wk[id].frame_log :
            wk[id].frame_log[i].cmd = "adjust_focus" =>
                /\ Abs(wk[id].frame_log[i].value) \in 1..3
                /\ AppliedFocusMove(wk[id].frame_log[i].value).speed
                      = Abs(wk[id].frame_log[i].value)

\* what a session has sent so far agrees with the strategy of its mode
StrategyOfMode(id) ==
    IF FastMode(id)
    THEN /\ io[id].to_camera = cmds[id].shot
         /\ cmds[id].arm = 0
         /\ cmds[id].shot > 0 =>
               /\ cmds[id].count >= 1
               /\ active_captures[id].images_before_capture # -1
    ELSE /\ io[id].to_camera = 0
         /\ cmds[id].shot > 0 => cmds[id].arm = 1
         /\ cmds[id].count = 0
         /\ cmds[id].download = 0
         /\ active_captures[id].status # "downloading"

\* the worker leaves the loop over the brackets
LeavesBracketLoop(id) ==
    /\ wk[id].pc = "bracket"
    /\ wk[id].bracket_idx = Len(Brackets(id))
    /\ wk'[id].pc # "bracket"

\* C33: the capture mode fixes the transfer strategy.  Fast mode: every
\* take_picture has save_to_camera true, the watermark is read before the
\* first exposure, the per-shot transfer path is never armed, and the status
\* becomes downloading exactly when the loop over the brackets ends.
\* Standard mode: every take_picture has save_to_camera false, the transfer
\* path is armed before the first exposure, and there is no downloading
\* status, no count command and no download command.
C33_ModeFixesTransferStrategy ==
    /\ [](\A id \in Registered : StrategyOfMode(id))
    /\ [][\A id \in Registered :
            /\ (/\ active_captures[id].status # "downloading"
                /\ active_captures'[id].status = "downloading")
                  => FastMode(id) /\ LeavesBracketLoop(id)
            /\ FastMode(id) /\ LeavesBracketLoop(id)
                  => active_captures'[id].status = "downloading"]_vars

C33_Witness ==
    \E id \in Registered :
       /\ FastMode(id)
       /\ active_captures[id].status = "downloading"
       /\ cmds[id].shot = 2 /\ io[id].to_camera = 2
       /\ cmds[id].count = 1 /\ cmds[id].arm = 0

\* the worker of the session takes a step in which a device operation fails
\* (the write of the summary record is a file operation, not a device one)
DeviceOperationFails(id) ==
    /\ wk'[id] # wk[id]
    /\ wk[id].pc # "save"
    /\ failures' = failures + 1

\* summary writes of the session that failed
FailedSaves(id) == cmds[id].save - Len(saved[id])

C34_FailedFramesHaveErrors ==
    \A id \in Registered :
       active_captures[id].progress.failed_frames
          <= Len(active_captures[id].errors)

C34_CleanCompletionHadNoFailure ==
    \A id \in Registered :
       (/\ active_captures[id].status = "completed"
        /\ active_captures[id].errors = <<>>)
          => failures = FailedSaves(id)

\* C34: the errors list records everything that went wrong: every failed
\* device operation of the worker appends an entry to errors, so
\* failed_frames <= Len(errors) in every state, and a session that is
\* completed with errors empty has had no failed device operation.
C34_ErrorsRecordEveryFailure ==
    /\ [][\A id \in Registered :
            DeviceOperationFails(id) =>
               Len(active_captures'[id].errors)
                  = Len(active_captures[id].errors) + 1]_vars
    /\ []C34_FailedFramesHaveErrors
    /\ []C34_CleanCompletionHadNoFailure

\* socketio.emit raises in a publish of this step of the session
PublishFails(id) == io'[id].emit_failed = io[id].emit_failed + 1

\* what a step leaves behind, the count of failed publishes apart
Outcome ==
    <<active_captures, wk, cardImages, cmds, saved, stopPc, stopId, stopRet,
      stopAt, failures>>

\* the same step can be taken with every publish succeeding, and leaves
\* behind the given outcome
SameWithPublishOk(id, after) ==
    ENABLED (/\ Next
             /\ io'[id].emit_failed = io[id].emit_failed
             /\ Outcome' = after)

\* C35: a failure of socketio.emit never affects the session: the exception
\* is swallowed, the status, progress, results and errors of the capture are
\* exactly what they are when the publish succeeds, and the worker (or
\* stop_capture) goes on to the same next step.
C35_PublishFailureIsSwallowed ==
    [][\A id \in Registered :
          PublishFails(id) =>
             \E after \in {Outcome'} : SameWithPublishOk(id, after)]_vars

C35_Witness ==
    \E id \in Registered :
       /\ io[id].emit_failed = 1
       /\ wk[id].pc = "shot"
       /\ active_captures[id].status = "running"
       /\ active_captures[id].errors = <<>>
       /\ active_captures[id].progress.completed_frames = 1

\* a generate_brackets_by_ev call that returned an entry for every ladder EV
FullLadder ==
    /\ calc.op = "generate_brackets_by_ev"
    /\ Len(calc.result) = calc.num_brackets

RECURSIVE SumEvDiff(_)
SumEvDiff(brackets) ==
    IF brackets = <<>> THEN 0
    ELSE Head(brackets).ev_diff + SumEvDiff(Tail(brackets))

\* C36: the EV ladder of generate_brackets_by_ev is start - i * step with
\* start = base + step * (N div 2) for odd N and base + step * ((N - 1) div
\* 2) + step / 2 for even N, so the offsets from the base EV sum to zero,
\* and an entry named "Base Exposure" exists exactly when N is odd, as the
\* middle entry.
C36_LadderIsCentredOnBase ==
    FullLadder =>
       LET n == calc.num_brackets
           base_ev == CalculateEV(calc.base_settings.iso,
                                  calc.base_settings.aperture,
                                  calc.base_settings.shutter_speed)[1]
           start == IF n % 2 = 1
                    THEN base_ev + calc.ev_steps * (n \div 2)
                    ELSE base_ev + calc.ev_steps * ((n - 1) \div 2)
                         + calc.ev_steps \div 2
       IN /\ \A k \in 1..n :
                calc.result[k].ev_diff
                   = base_ev - (start - (k - 1) * calc.ev_steps)
          /\ SumEvDiff(calc.result) = 0
          /\ \A k \in 1..n :
                calc.result[k].name = "Base Exposure"
                   <=> (n % 2 = 1 /\ k = (n + 1) \div 2)

\* the exposures accounted for so far
FramesDone(id) ==
    Progress(id).completed_frames + Progress(id).failed_frames

\* no bracket was skipped and no forward focus move failed
NothingSkipped(id) ==
    \A i \in DOMAIN active_captures[id].errors :
       active_captures[id].errors[i] \notin {"settings", "focus"}

C38_TerminalIffEndTime ==
    \A id \in Registered :
       Status(id) \in Terminal <=> active_captures[id].end_time = "set"

\* the summary is written at most once, and never for a capture that is
\* stopped or in error
C39_SummaryOnlyTowardsCompleted ==
    \A id \in Registered :
       /\ cmds[id].save <= 1
       /\ Len(saved[id]) <= cmds[id].save
       /\ cmds[id].save = 1 => Status(id) \notin {"stopped", "error"}

\* whether the write succeeds or not, the worker goes on to set completed
C39_WriteFailureSwallowed ==
    \A id \in Registered :
       (wk[id].pc = "save" /\ wk'[id] # wk[id])
          => /\ wk'[id].pc = "complete"
             /\ active_captures'[id] = active_captures[id]

\* the status in the record is running in standard mode, downloading in fast
C39_StoredStatusOfMode ==
    \A id \in Registered :
       \A i \in DOMAIN saved[id] :
          saved[id][i].status =
             (IF FastMode(id) THEN "downloading" ELSE "running")

\* C39: the summary record is written at most once per capture and only on
\* the path to completed: a capture that ends stopped or error never has a
\* summary written, a failure while writing it is swallowed and does not
\* prevent completed, and the status stored in the record is the status at
\* write time (running in standard mode, downloading in fast mode), not
\* completed.
C39_SummaryRecord ==
    /\ []C39_SummaryOnlyTowardsCompleted
    /\ [][C39_WriteFailureSwallowed]_vars
    /\ []C39_StoredStatusOfMode

\* C40: in fast mode, with nobody else adding or removing images on the
\* card, the max_images passed to bulk_download never exceeds the number of
\* exposures the capture took (completed_frames + failed_frames), whatever
\* device operations fail, a failed watermark read included.
C40_DownloadAtMostOwnExposures ==
    \A id \in Registered :
       (FastMode(id) /\ cmds[id].download >= 1)
          => cmds[id].max_images <= FramesDone(id)

====
